---- MODULE Spec2Model ----
(***************************************************************************)
(* State-machine model of the conformer scanner of curcuma                 *)
(* (src/src/capabilities/confscan.cpp): ConfScan::start with its three     *)
(* passes (CheckOnly, Reorder, Reorder in reuse mode), the worker objects  *)
(* ConfScanThreadNoReorder / ConfScanThread, the reorder-rule cache and    *)
(* Finalise.                                                               *)
(*                                                                         *)
(* Numbers.  RMSD values, energies and descriptor values are integers on a *)
(* grid; the factor 2625.5 (Hartree -> kJ/mol) is the unit of the energy   *)
(* differences.  Multipliers that the program reads as reals (sTE, sTI,    *)
(* sTH) are kept in tenths, and the comparison is done on the scaled       *)
(* integers, so that 0.1 and 2.0 are both exact.                           *)
(*                                                                         *)
(* The RMSD driver (rmsd.cpp) and the thread pool (CxxThreadPool) are not  *)
(* part of the sources; they are modelled from their interface (rmsd.h)    *)
(* and from the specification, see the comments at their definitions.     *)
(***************************************************************************)
EXTENDS Integers, Sequences, FiniteSets, TLC

(***************************************************************************)
(* Bounds of the model                                                     *)
(***************************************************************************)
\* number of structures in the input ensemble
NMol == 3
\* geometries lie on a line 0..MaxShape; the RMSD of two structures after
\* the best permutation is the distance of their shapes
MaxShape == 4
\* longest rule cache explored by the stand-alone cache specification
MaxRules == 3

(***************************************************************************)
(* Program constants                                                       *)
(***************************************************************************)
\* confscan.cpp:209  m_rmsd_threshold = 1e5 when no threshold is given
UnsetRmsd == 100000
\* confscan.cpp:1031 double min_rmsd = 1e4
MinRmsdStart == 10000
\* confscan.cpp:1157 / 1161  m_dLI = 1e10, m_dLH = 1e10.  The model keeps the
\* value inside the integers of the model checker; it stays above every
\* descriptor difference, also after the multiplication with a step
HugeLoose == 1000000000
\* confscan.cpp:742  m_dLI = m_dLH = m_dLE = 1e23 when the initial pass is
\* skipped; kept inside the integers in the same way
HugeSkip == 1000000000

Mols == 1..NMol

(***************************************************************************)
(* Small helpers                                                           *)
(***************************************************************************)
Abs(x) == IF x < 0 THEN -x ELSE x

Max(a, b) == IF a >= b THEN a ELSE b

Min(a, b) == IF a <= b THEN a ELSE b

ToSet(s) == {s[i] : i \in DOMAIN s}

Contains(s, x) == \E i \in DOMAIN s : s[i] = x

\* bit k (value 1, 2 or 4) of a small mask
Bit(mask, k) == (mask \div k) % 2 = 1

\* (a & b) == b on three-bit masks
MaskCovers(a, b) == \A k \in {1, 2, 4} : Bit(b, k) => Bit(a, k)

(***************************************************************************)
(* Permutations.  A molecule of the model has two atoms; its atom order    *)
(* (label) and every reorder rule is a sequence over the atom indices 0    *)
(* and 1.  WrongLength is a rule for a molecule with another atom count,   *)
(* as a restart file of another ensemble can hold it.                      *)
(***************************************************************************)
Identity == <<0, 1>>

Swap == <<1, 0>>

WrongLength == <<0>>

Perms == {Identity, Swap}

AtomCount == Len(Identity)

\* atom j of the reordered molecule is atom rule[j] of the original
ApplyOrder(rule, lab) == [j \in 1..Len(rule) |-> lab[rule[j] + 1]]

(***************************************************************************)
(* State                                                                   *)
(***************************************************************************)
VARIABLES
    cfg,                    \* the controller read by LoadControlJson
    mol,                    \* m_molecules: per structure energy, geometry, descriptors
    label,                  \* atom order of every structure (changed by ApplyReorderRule / LoadMolecule)
    stop,                   \* the stop file exists
    m_ordered_list,         \* structures ordered by energy (std::multimap<double,int>)
    m_previously_accepted,  \* structures of the file of previously accepted ones
    m_rmsd_threshold,
    m_rmsd_set,
    m_looseThresh,
    m_skipreuse,
    m_skip,
    m_result,
    m_stored_structures,    \* the accepted set, in insertion order
    m_rejected_structures,
    m_threshold,
    m_all_structures,
    m_reorder_rules,        \* the reorder-rule cache
    m_exclude_list,
    m_listThresh,
    m_dL,                   \* m_dLE, m_dLI, m_dLH
    m_dT,                   \* m_dTE, m_dTI, m_dTH
    m_accepted,
    m_rejected,
    m_lowest_energy,
    pc,                     \* position in ConfScan::start
    phase,                  \* 0 initial pass, 1..R reorder iterations, R+1 reuse pass, R+2 Finalise
    pass,                   \* kind of the pass that is running
    cached,                 \* the list the running pass iterates over
    idx,                    \* position of the loop in cached
    loc,                    \* Reorder's parameters dLE, dLI, dLH and its local list rules
    threads,                \* the worker objects of the running pass
    passLog,                \* history: the accepted set at the end of every pass
    lastDecision,           \* history: the last candidate decided by a pool run
    molalignRuns,           \* history: RMSDDriver runs started by Reorder itself
    accepted_file           \* what Finalise appended to the accepted file

\* SimpleMD, the molecular dynamics engine (simplemd.cpp)
VARIABLES
    mdcfg,                  \* the controller of the MD run and what its directory holds
    md_pc,                  \* "none", "new", "ready", "running", "done", "failed"
    launch,                 \* how many SimpleMD objects have been constructed
    disk,                   \* the files the MD runs have written
    m_initialised,
    m_restart,
    m_T0,
    m_T,
    m_unstable,
    m_step,                 \* the member SimpleMD::m_step, read by the integrators
    step,                   \* the local m_step of SimpleMD::start, line 1420
    m_currentStep,
    aborted,
    m_eigen_geometry,       \* the frame: a number, 0 before a geometry is there
    m_eigen_velocities,
    m_rmsd_mtd,
    m_mtd_steps,
    m_rmsd_ref_file,
    m_bias_json,
    m_bias_threads,         \* per bias worker the structures it holds
    m_bias_structure_count,
    m_rattle,
    m_rattle_tol_12,
    m_bond_constrained,     \* 1-2 constraints: <<i, j, squared distance>>
    m_bond_13_constrained,  \* 1-3 constraints
    states,                 \* the restart records kept for the rescue
    calls,                  \* history: what the last integrator call did, in order
    midT,                   \* history: the temperature after the first half step
    rattle_iter,            \* history: iterations of the two RATTLE phases of the last step
    m_wall,                 \* m_wall_x_min .. m_wall_z_max: per axis <<min, max>>
    md_dT,                  \* SimpleMD::m_dT, the time step
    m_maxtime,
    m_current_rescue,
    exit_by,                \* history: how start() left the MD loop
    traj                    \* RMSDTraj: its members and the locals of AnalyseTrajectory

mdVars == <<mdcfg, md_pc, launch, disk, m_initialised, m_restart, m_T0, m_T, m_unstable,
            m_step, step, m_currentStep, aborted, m_eigen_geometry, m_eigen_velocities,
            m_rmsd_mtd, m_mtd_steps, m_rmsd_ref_file, m_bias_json, m_bias_threads,
            m_bias_structure_count, m_rattle, m_rattle_tol_12, m_bond_constrained,
            m_bond_13_constrained, states, calls, midT, rattle_iter, m_wall, md_dT,
            m_maxtime, m_current_rescue, exit_by>>

inputVars == <<cfg, mol, m_ordered_list, m_previously_accepted>>

setVars == <<m_result, m_stored_structures, m_rejected_structures, m_threshold,
             m_all_structures, m_accepted, m_rejected, m_lowest_energy>>

threshVars == <<m_rmsd_threshold, m_rmsd_set, m_listThresh, m_dL, m_dT>>

ctrlVars == <<pc, phase, pass, cached, idx, m_looseThresh, m_skipreuse, m_skip>>

scanVars == <<inputVars, label, setVars, threshVars, ctrlVars, m_reorder_rules,
              m_exclude_list, loc, threads, passLog, lastDecision, molalignRuns,
              accepted_file>>

vars == <<inputVars, label, stop, setVars, threshVars, ctrlVars, m_reorder_rules,
          m_exclude_list, loc, threads, passLog, lastDecision, molalignRuns, accepted_file,
          mdVars, traj>>

(***************************************************************************)
(* The RMSD driver, as the scanner sees it through rmsd.h.  A structure is *)
(* a shape on a line and an atom order.  With the atoms of the target in   *)
(* the order of the reference the RMSD is the distance of the shapes; with *)
(* atoms paired wrongly the misfit MaxShape + 1 is added, more than any    *)
(* two shapes differ.                                                      *)
(***************************************************************************)
Mismatch == MaxShape + 1

\* RMSDDriver::Rules2RMSD: apply the rule to the target, then best fit
Rules2RMSD(rule, ref, refLabel, tgt, tgtLabel) ==
    Abs(mol[ref].shape - mol[tgt].shape)
        + (IF ApplyOrder(rule, tgtLabel) = refLabel THEN 0 ELSE Mismatch)

\* RMSDDriver::BestFitRMSD: the atom order as it is
BestFitRMSD(ref, refLabel, tgt, tgtLabel) ==
    Rules2RMSD(Identity, ref, refLabel, tgt, tgtLabel)

\* RMSDDriver::ReorderRules after start(): the permutation found by the search
ReorderRules(refLabel, tgtLabel) ==
    CHOOSE r \in Perms : ApplyOrder(r, tgtLabel) = refLabel

\* RMSDDriver::RMSD after start() with reordering
ReorderedRMSD(ref, refLabel, tgt, tgtLabel) ==
    Rules2RMSD(ReorderRules(refLabel, tgtLabel), ref, refLabel, tgt, tgtLabel)

\* RMSDDriver::HBondTopoDifference of the last alignment
HBondTopoDifference(ref, tgt) == Abs(mol[ref].hb - mol[tgt].hb)

\* Molecule::ApplyReorderRule; a rule of another length leaves the molecule alone
ApplyReorderRule(rule, lab) ==
    IF Len(rule) = Len(lab) THEN ApplyOrder(rule, lab) ELSE lab

(***************************************************************************)
(* openFile: the ordered list                                              *)
(***************************************************************************)
\* openFile with a list that keeps the order of the file
InsertUnordered(list, m, energy) == Append(list, m)

\* std::multimap::insert: behind the last entry whose key is not larger
InsertOrdered(list, m, energy) ==
    LET before == {i \in DOMAIN list : energy[list[i]] <= energy[m]}
        k == Cardinality(before)
    IN  SubSeq(list, 1, k) \o <<m>> \o SubSeq(list, k + 1, Len(list))

RECURSIVE OrderedList(_, _)
OrderedList(n, energy) ==
    IF n = 0 THEN <<>>
    ELSE InsertOrdered(OrderedList(n - 1, energy), n, energy)

(***************************************************************************)
(* LoadControlJson.  A controller is a record of the keywords the scanner  *)
(* reads; BaseController is a plain run: user threshold 1, one reorder     *)
(* iteration, all passes, descriptor masks that let every pair through to  *)
(* the alignment and reject nothing directly.                              *)
(***************************************************************************)
BaseController ==
    [rmsd |-> 1, getrmsd_thresh |-> 1, rank |-> -1, maxenergy |-> -1, skip |-> 0,
     sLE |-> <<1>>, sLI |-> <<1>>, sLH |-> <<1>>, sTE |-> 1, sTI |-> 1, sTH |-> 1,
     looseThresh |-> 0, tightThresh |-> 7, earlybreak |-> 0, MaxHTopoDiff |-> -1,
     domolalign |-> -1, method |-> "hybrid", threads |-> 2,
     reset |-> FALSE, skipinit |-> FALSE, skipreorder |-> FALSE, skipreuse |-> FALSE,
     mapped |-> FALSE, skip_orders |-> FALSE, ignoreRotation |-> FALSE,
     ignoreBarCode |-> FALSE, restart |-> TRUE, restartFiles |-> <<>>,
     control |-> <<>>, stoppable |-> FALSE]

\* the members LoadControlJson derives from the keywords
LoadControlJson(c) ==
    [c EXCEPT !.domolalign = IF c.method = "molalign" THEN -1 ELSE @]

\* m_rmsd_threshold after LoadControlJson
LoadedThreshold(c) == IF c.rmsd < 0 THEN UnsetRmsd ELSE c.rmsd

\* Reorder runs its workers one after the other instead of through the pool
Sequential == cfg.method = "molalign" /\ cfg.threads = 1

(***************************************************************************)
(* Worker objects                                                          *)
(***************************************************************************)
\* addThreadNoreorder / addThread: a worker with a copy of the reference and
\* the threshold of the moment
NewThread(kind, reference, refLabel, threshold, rules, reuse_only) ==
    [kind |-> kind, ref |-> reference, refLabel |-> refLabel, thr |-> threshold,
     reuse_only |-> reuse_only, rules |-> rules, tgt |-> 0,
     enabled |-> TRUE, state |-> "idle",
     keep |-> TRUE, brk |-> FALSE, reorder_worked |-> FALSE, reused_worked |-> FALSE,
     rule |-> <<>>, rmsd |-> 0, DI |-> 0, DH |-> 0, calls |-> <<>>]

addThreadNoreorder(reference, refLabel, threshold) ==
    NewThread("noreorder", reference, refLabel, threshold, <<>>, FALSE)

\* a worker created with another threshold than the scanner's
addThreadOther(reference, refLabel, threshold, rules, reuse_only) ==
    NewThread("reorder", reference, refLabel, threshold + 1, rules, reuse_only)

addThread(reference, refLabel, threshold, rules, reuse_only) ==
    NewThread("reorder", reference, refLabel, threshold, rules, reuse_only)

\* m_MaxHTopoDiff == -1 || m_driver->HBondTopoDifference() <= m_MaxHTopoDiff
TopoAllowed(t) ==
    cfg.MaxHTopoDiff = -1 \/ HBondTopoDifference(t.ref, t.tgt) <= cfg.MaxHTopoDiff

\* ConfScanThreadNoReorder::execute with a strict comparison
ExecuteNoReorderStrict(t, tgtLabel) ==
    LET r == BestFitRMSD(t.ref, t.refLabel, t.tgt, tgtLabel)
        match == r < t.thr /\ TopoAllowed(t)
    IN  [t EXCEPT !.state = "done",
                  !.keep = ~match,
                  !.brk = IF match THEN TRUE ELSE @,
                  !.rmsd = r,
                  !.DI = Abs(mol[t.ref].rot - mol[t.tgt].rot),
                  !.DH = Abs(mol[t.ref].img - mol[t.tgt].img),
                  !.calls = <<<<"start", 0>>>>]

\* ConfScanThreadNoReorder::execute
ExecuteNoReorder(t, tgtLabel) ==
    LET r == BestFitRMSD(t.ref, t.refLabel, t.tgt, tgtLabel)
        match == r <= t.thr /\ TopoAllowed(t)
    IN  [t EXCEPT !.state = "done",
                  !.keep = ~match,
                  !.brk = IF match THEN TRUE ELSE @,
                  !.rmsd = r,
                  !.DI = Abs(mol[t.ref].rot - mol[t.tgt].rot),
                  !.DH = Abs(mol[t.ref].img - mol[t.tgt].img),
                  !.calls = <<<<"start", 0>>>>]

\* the cached rules the loop of ConfScanThread::execute does not skip
RuleUsable(t, i) == Len(t.rules[i]) = AtomCount /\ Len(t.rules[i]) # 0

\* a cached rule that rejects the target
RuleHits(t, tgtLabel, i) ==
    /\ RuleUsable(t, i)
    /\ Rules2RMSD(t.rules[i], t.ref, t.refLabel, t.tgt, tgtLabel) < t.thr
    /\ TopoAllowed(t)

\* a rule loop that never finds a rule
FirstHitNone(t, tgtLabel) == 0

\* index of the first cached rule that rejects the target, 0 if there is none
FirstHit(t, tgtLabel) ==
    LET hits == {i \in DOMAIN t.rules : RuleHits(t, tgtLabel, i)}
    IN  IF hits = {} THEN 0 ELSE CHOOSE i \in hits : \A j \in hits : i <= j

\* the driver calls of the rule loop up to and including index last
RECURSIVE RuleCalls(_, _, _)
RuleCalls(t, i, last) ==
    IF i > last THEN <<>>
    ELSE (IF RuleUsable(t, i) THEN <<<<"Rules2RMSD", i>>>> ELSE <<>>)
             \o RuleCalls(t, i + 1, last)

\* execute() with early breaks asked for when the bit is set
ExecuteReorderBitSet(t, tgtLabel) ==
    LET old == BestFitRMSD(t.ref, t.refLabel, t.tgt, tgtLabel)
        hit == FirstHit(t, tgtLabel)
        new == ReorderedRMSD(t.ref, t.refLabel, t.tgt, tgtLabel)
        fresh == [t EXCEPT !.state = "done", !.keep = TRUE, !.brk = FALSE,
                           !.reorder_worked = FALSE, !.reused_worked = FALSE,
                           !.rule = <<>>]
    IN  IF old < t.thr
        THEN [fresh EXCEPT !.rmsd = old, !.keep = FALSE, !.brk = TRUE,
                           !.calls = <<<<"BestFitRMSD", 0>>>>]
        ELSE IF hit # 0
        THEN [fresh EXCEPT !.keep = FALSE,
                           !.brk = Bit(cfg.earlybreak, 1),
                           !.reused_worked = TRUE,
                           !.rmsd = Rules2RMSD(t.rules[hit], t.ref, t.refLabel, t.tgt, tgtLabel),
                           !.rule = t.rules[hit],
                           !.calls = <<<<"BestFitRMSD", 0>>>> \o RuleCalls(t, 1, hit)]
        ELSE IF t.reuse_only
        THEN [fresh EXCEPT !.calls = <<<<"BestFitRMSD", 0>>>> \o RuleCalls(t, 1, Len(t.rules))]
        ELSE IF new <= t.thr /\ TopoAllowed(t)
        THEN [fresh EXCEPT !.rmsd = new, !.keep = FALSE,
                           !.brk = Bit(cfg.earlybreak, 2),
                           !.reorder_worked = TRUE,
                           !.rule = ReorderRules(t.refLabel, tgtLabel),
                           !.calls = <<<<"BestFitRMSD", 0>>>> \o RuleCalls(t, 1, Len(t.rules))
                                         \o <<<<"start", 0>>>>]
        ELSE [fresh EXCEPT !.rmsd = new,
                           !.calls = <<<<"BestFitRMSD", 0>>>> \o RuleCalls(t, 1, Len(t.rules))
                                         \o <<<<"start", 0>>>>]


\* ConfScanThread::execute
ExecuteReorder(t, tgtLabel) ==
    LET old == BestFitRMSD(t.ref, t.refLabel, t.tgt, tgtLabel)
        hit == FirstHit(t, tgtLabel)
        new == ReorderedRMSD(t.ref, t.refLabel, t.tgt, tgtLabel)
        fresh == [t EXCEPT !.state = "done", !.keep = TRUE, !.brk = FALSE,
                           !.reorder_worked = FALSE, !.reused_worked = FALSE,
                           !.rule = <<>>]
    IN  IF old < t.thr
        THEN [fresh EXCEPT !.rmsd = old, !.keep = FALSE, !.brk = TRUE,
                           !.calls = <<<<"BestFitRMSD", 0>>>>]
        ELSE IF hit # 0
        THEN [fresh EXCEPT !.keep = FALSE,
                           !.brk = ~Bit(cfg.earlybreak, 1),
                           !.reused_worked = TRUE,
                           !.rmsd = Rules2RMSD(t.rules[hit], t.ref, t.refLabel, t.tgt, tgtLabel),
                           !.rule = t.rules[hit],
                           !.calls = <<<<"BestFitRMSD", 0>>>> \o RuleCalls(t, 1, hit)]
        ELSE IF t.reuse_only
        THEN [fresh EXCEPT !.calls = <<<<"BestFitRMSD", 0>>>> \o RuleCalls(t, 1, Len(t.rules))]
        ELSE IF new <= t.thr /\ TopoAllowed(t)
        THEN [fresh EXCEPT !.rmsd = new, !.keep = FALSE,
                           !.brk = ~Bit(cfg.earlybreak, 2),
                           !.reorder_worked = TRUE,
                           !.rule = ReorderRules(t.refLabel, tgtLabel),
                           !.calls = <<<<"BestFitRMSD", 0>>>> \o RuleCalls(t, 1, Len(t.rules))
                                         \o <<<<"start", 0>>>>]
        ELSE [fresh EXCEPT !.rmsd = new,
                           !.calls = <<<<"BestFitRMSD", 0>>>> \o RuleCalls(t, 1, Len(t.rules))
                                         \o <<<<"start", 0>>>>]

\* the execute() of the worker's class
ExecuteThread(t, tgtLabel) ==
    IF t.kind = "noreorder" THEN ExecuteNoReorder(t, tgtLabel)
    ELSE ExecuteReorder(t, tgtLabel)

(***************************************************************************)
(* The reorder-rule cache                                                  *)
(***************************************************************************)
\* AddRules without the look-up in the cache
AddRulesAlways(cache, rule) ==
    IF Len(rule) = 0 \/ cfg.skip_orders THEN cache ELSE Append(cache, rule)

\* ConfScan::AddRules: the cache after the call
AddRules(cache, rule) ==
    IF Len(rule) = 0 \/ cfg.skip_orders THEN cache
    ELSE IF Contains(cache, rule) THEN cache
    ELSE Append(cache, rule)

\* ConfScan::AddRules: the value it returns
AddRulesAccepts(rule) == ~(Len(rule) = 0 \/ cfg.skip_orders)

\* LoadRestartInformation: the rules of one restart file
RECURSIVE MergeRules(_, _)
MergeRules(cache, list) ==
    IF list = <<>> THEN cache
    ELSE MergeRules(IF Contains(cache, Head(list)) THEN cache
                    ELSE Append(cache, Head(list)),
                    Tail(list))

\* LoadRestartInformation: all restart files; a file that does not parse is skipped
RECURSIVE LoadRestartInformation(_, _)
LoadRestartInformation(cache, files) ==
    IF ~cfg.restart \/ files = <<>> THEN cache
    ELSE LoadRestartInformation(
             IF Head(files).parses THEN MergeRules(cache, Head(files).ReorderRules)
             ELSE cache,
             Tail(files))

(***************************************************************************)
(* Construction: LoadControlJson and openFile                              *)
(***************************************************************************)
\* the members of SimpleMD before the constructor has run
NotConstructed ==
    /\ launch = 0
    /\ m_initialised = FALSE
    /\ m_restart = FALSE
    /\ m_T0 = 0
    /\ m_T = 0
    /\ m_unstable = FALSE
    /\ m_step = 0
    /\ step = 0
    /\ m_currentStep = 0
    /\ aborted = FALSE
    /\ m_eigen_geometry = 0
    /\ m_eigen_velocities = 0
    /\ m_rmsd_mtd = FALSE
    /\ m_mtd_steps = 1
    /\ m_rmsd_ref_file = <<>>
    /\ m_bias_json = <<>>
    /\ m_bias_threads = <<>>
    /\ m_bias_structure_count = 0
    /\ m_rattle = 0
    /\ m_rattle_tol_12 = 0
    /\ m_bond_constrained = <<>>
    /\ m_bond_13_constrained = <<>>
    /\ states = <<>>
    /\ calls = <<>>
    /\ midT = 0
    /\ rattle_iter = <<0, 0>>
    /\ m_wall = <<>>
    /\ md_dT = 0
    /\ m_maxtime = 0
    /\ m_current_rescue = 0
    /\ exit_by = "none"

\* no SimpleMD object has been constructed
NoMD ==
    /\ mdcfg = <<>>
    /\ md_pc = "none"
    /\ disk = <<>>
    /\ NotConstructed

\* openFile: the last nprev structures are those of the file of previously
\* accepted ones (lines 428-470), the others are the ensemble
\* no RMSDTraj object
NoTraj ==
    traj = [pc |-> "none", m_filename |-> <<>>, m_reference |-> <<>>,
            m_stored_structures |-> <<>>, m_rmsd_file |-> <<>>,
            atoms |-> 0, index |-> 0, i |-> 0, mol |-> <<>>]

InitFrom(Controllers, MolSet, LabelSet, nprev) ==
    /\ cfg \in {LoadControlJson(c) : c \in Controllers}
    /\ mol \in [Mols -> MolSet]
    /\ label \in [Mols -> LabelSet]
    /\ stop = FALSE
    /\ m_ordered_list = OrderedList(NMol - nprev, [m \in Mols |-> mol[m].energy])
    /\ m_previously_accepted = [i \in 1..nprev |-> NMol - nprev + i]
    /\ m_rmsd_threshold = LoadedThreshold(cfg)
    /\ m_rmsd_set = (cfg.rmsd >= 0)
    /\ m_looseThresh = cfg.looseThresh
    /\ m_skipreuse = cfg.skipreuse
    /\ m_skip = cfg.skip
    /\ m_result = m_previously_accepted
    /\ m_stored_structures = <<>>
    /\ m_rejected_structures = <<>>
    /\ m_threshold = <<>>
    /\ m_all_structures = <<>>
    /\ m_reorder_rules = <<>>
    /\ m_exclude_list = {}
    /\ m_listThresh = {}
    /\ m_dL = [E |-> 0, I |-> 0, H |-> 0]
    /\ m_dT = [E |-> 0, I |-> 0, H |-> 0]
    /\ m_accepted = 0
    /\ m_rejected = 0
    /\ m_lowest_energy = 0
    /\ pc = "setup"
    /\ phase = 0
    /\ pass = "none"
    /\ cached = <<>>
    /\ idx = 0
    /\ loc = [dLE |-> 0, dLI |-> 0, dLH |-> 0, rules |-> <<>>, reuse_only |-> FALSE]
    /\ threads = <<>>
    /\ passLog = <<>>
    /\ lastDecision = [cand |-> 0, kind |-> "none", rejected |-> FALSE, via |-> "none",
                       workers |-> <<>>]
    /\ molalignRuns = <<>>
    /\ accepted_file = <<>>
    /\ NoMD
    /\ NoTraj

InitWith(Controllers, MolSet, LabelSet) == InitFrom(Controllers, MolSet, LabelSet, 0)

(***************************************************************************)
(* ConfScan::start, step by step                                           *)
(***************************************************************************)
\* number of reorder iterations
Runs == Len(cfg.sLE)

\* CheckStop: the stop file, once there, stays
StopChoice == IF stop THEN {TRUE} ELSE IF cfg.stoppable THEN BOOLEAN ELSE {FALSE}

\* the accepted set at the end of a pass
LogPass(kind, accepted, complete) ==
    Append(passLog, [kind |-> kind, accepted |-> accepted, complete |-> complete,
                     rules |-> m_reorder_rules])

\* ReadControlFile: a control file, when there is one, replaces the rank limit
\* and the threshold
ReadControlFile(c) ==
    IF c.control = <<>> THEN c ELSE [c EXCEPT !.rank = c.control[1].MaxRank]

\* SetUp: ReadControlFile and LoadRestartInformation
SetUp ==
    /\ pc = "setup"
    /\ cfg' = ReadControlFile(cfg)
    /\ m_rmsd_threshold' = IF cfg.control = <<>> THEN m_rmsd_threshold
                           ELSE cfg.control[1].RMSDThreshold
    /\ m_reorder_rules' = LoadRestartInformation(m_reorder_rules, cfg.restartFiles)
    /\ pc' = "next"
    /\ UNCHANGED <<mol, m_ordered_list, m_previously_accepted, label, stop, setVars,
                   m_rmsd_set, m_listThresh, m_dL, m_dT, phase, pass, cached, idx,
                   m_looseThresh, m_skipreuse, m_skip, m_exclude_list, loc, threads,
                   passLog, lastDecision, molalignRuns, accepted_file>>
    /\ UNCHANGED <<mdVars, traj>>

\* largest value of column k among the pairs of m_listThresh with RMSD <= limit
ListMax(base, k, limit) ==
    LET vals == {e[k] : e \in {x \in m_listThresh : x[1] <= limit}}
    IN  IF \E v \in vals : v > base
        THEN CHOOSE v \in vals : \A w \in vals : w <= v
        ELSE base

\* the parameters dLE, dLI, dLH of reorder iteration run (start, lines 773-793)
LooseOfRun(run) ==
    IF ~cfg.mapped
    THEN [dLE |-> m_dL.E * cfg.sLE[run], dLI |-> m_dL.I * cfg.sLI[run],
          dLH |-> m_dL.H * cfg.sLH[run]]
    ELSE [dLE |-> ListMax(m_dL.E, 2, cfg.sLE[run] * m_rmsd_threshold),
          dLI |-> ListMax(m_dL.I, 4, cfg.sLI[run] * m_rmsd_threshold),
          dLH |-> ListMax(m_dL.H, 3, cfg.sLH[run] * m_rmsd_threshold)]

\* Reorder, lines 1177-1181: every structure seen
CachedAll(reset) == m_all_structures

\* Reorder, lines 1177-1181: the list the pass iterates over
CachedFor(reset) == IF reset THEN m_all_structures ELSE m_stored_structures

\* the head of Reorder, up to its loop
BeginReorder(p, reuse_only, reset) ==
    /\ m_dL' = [m_dL EXCEPT !.I = IF cfg.ignoreRotation THEN HugeLoose ELSE @,
                            !.H = IF cfg.ignoreBarCode THEN HugeLoose ELSE @]
    /\ m_dT' = [m_dT EXCEPT !.I = IF cfg.ignoreRotation THEN -1 ELSE @,
                            !.H = IF cfg.ignoreBarCode THEN -1 ELSE @]
    /\ m_rejected' = 0
    /\ m_accepted' = 0
    /\ cached' = CachedFor(reset)
    /\ m_result' = m_previously_accepted
    /\ m_stored_structures' = <<>>
    /\ threads' = <<>>
    /\ loc' = [dLE |-> p.dLE, dLI |-> p.dLI, dLH |-> p.dLH, rules |-> <<>>,
               reuse_only |-> reuse_only]
    /\ idx' = 1
    /\ pc' = "loop"
    /\ pass' = IF reuse_only THEN "reuse" ELSE "reorder"
    /\ UNCHANGED <<phase, m_rejected_structures, m_threshold, m_all_structures,
                   m_lowest_energy, m_rmsd_threshold, m_rmsd_set, m_listThresh,
                   m_looseThresh, m_skipreuse, m_skip>>

\* start goes on to the next pass without running one
SkipTo(newPhase) ==
    /\ phase' = newPhase
    /\ UNCHANGED <<pc, pass, cached, idx, threads, loc, setVars, threshVars,
                   m_looseThresh, m_skipreuse, m_skip>>

\* the head of CheckOnly, up to its loop
BeginCheckOnly ==
    /\ pass' = "initial"
    /\ cached' = m_ordered_list
    /\ idx' = 1
    /\ threads' = <<>>
    /\ pc' = "loop"
    /\ UNCHANGED <<phase, loc, setVars, threshVars, m_looseThresh, m_skipreuse, m_skip>>

\* start, lines 736-752: the initial pass is skipped
SkipInitialPass ==
    /\ m_stored_structures' = m_stored_structures \o m_ordered_list
    /\ m_dL' = IF m_rmsd_set THEN [E |-> HugeSkip, I |-> HugeSkip, H |-> HugeSkip]
               ELSE [E |-> 0, I |-> 0, H |-> 0]
    /\ m_looseThresh' = 0
    /\ m_skipreuse' = TRUE
    /\ phase' = 1
    /\ UNCHANGED <<pc, pass, cached, idx, threads, loc, m_skip, m_result,
                   m_rejected_structures, m_threshold, m_all_structures, m_accepted,
                   m_rejected, m_lowest_energy, m_rmsd_threshold, m_rmsd_set,
                   m_listThresh, m_dT>>

\* start between two passes: which pass comes next, and its head
NextPass ==
    /\ pc = "next"
    /\ phase <= Runs + 1
    /\ IF phase = 0
       THEN /\ IF ~cfg.skipinit THEN BeginCheckOnly ELSE SkipInitialPass
            /\ UNCHANGED <<stop, m_exclude_list>>
       ELSE IF phase <= Runs
       THEN IF cfg.skipreorder
            THEN SkipTo(Runs + 1) /\ UNCHANGED <<stop, m_exclude_list>>
            ELSE \E found \in StopChoice :
                    /\ stop' = found
                    /\ IF ~found THEN BeginReorder(LooseOfRun(phase), FALSE, FALSE)
                       ELSE SkipTo(phase + 1)
                    /\ UNCHANGED m_exclude_list
       ELSE IF m_skipreuse
            THEN SkipTo(Runs + 2) /\ UNCHANGED <<stop, m_exclude_list>>
            ELSE \E found \in StopChoice :
                    /\ stop' = found
                    /\ IF ~found
                       THEN /\ m_exclude_list' = {}
                            /\ BeginReorder([dLE |-> -1, dLI |-> -1, dLH |-> -1],
                                            TRUE, cfg.reset)
                       ELSE SkipTo(Runs + 2) /\ UNCHANGED m_exclude_list
    /\ UNCHANGED <<inputVars, label, m_reorder_rules, passLog, lastDecision,
                   molalignRuns, accepted_file>>
    /\ UNCHANGED <<mdVars, traj>>

\* CheckOnly, lines 1090-1109: the loose thresholds from the pairs of the list
LooseFromList(d) ==
    [E |-> ListMax(d.E, 2, cfg.getrmsd_thresh),
     I |-> ListMax(d.I, 4, cfg.getrmsd_thresh),
     H |-> ListMax(d.H, 3, cfg.getrmsd_thresh)]

\* the loop of a pass is through: the tail of CheckOnly or of Reorder
EndPass ==
    /\ pc = "loop"
    /\ idx > Len(cached)
    /\ IF pass = "initial"
       THEN /\ m_dL' = IF ~m_rmsd_set THEN LooseFromList(LooseFromList(m_dL))
                       ELSE LooseFromList(m_dL)
            /\ m_rmsd_set' = TRUE
       ELSE UNCHANGED <<m_dL, m_rmsd_set>>
    /\ threads' = <<>>
    /\ passLog' = LogPass(pass, m_stored_structures, TRUE)
    /\ pc' = "next"
    /\ phase' = phase + 1
    /\ UNCHANGED <<inputVars, label, stop, setVars, m_rmsd_threshold, m_listThresh, m_dT,
                   pass, cached, idx, m_looseThresh, m_skipreuse, m_skip,
                   m_reorder_rules, m_exclude_list, loc, lastDecision, molalignRuns,
                   accepted_file>>
    /\ UNCHANGED <<mdVars, traj>>

\* Finalise: the structures written to the accepted file
RECURSIVE Written(_, _)
Written(list, i) ==
    IF list = <<>> THEN <<>>
    ELSE LET m == Head(list)
             difference == Abs(mol[m].energy - m_lowest_energy)
         IN  IF i >= cfg.rank /\ cfg.rank # -1 THEN Written(Tail(list), i)
             ELSE IF difference > cfg.maxenergy /\ cfg.maxenergy # -1
             THEN Written(Tail(list), i)
             ELSE <<m>> \o Written(Tail(list), i + 1)

Finalise ==
    /\ pc = "next"
    /\ phase = Runs + 2
    /\ accepted_file' = Written(m_stored_structures, 0)
    /\ pc' = "done"
    /\ UNCHANGED <<inputVars, label, stop, setVars, threshVars, phase, pass, cached, idx,
                   m_looseThresh, m_skipreuse, m_skip, m_reorder_rules, m_exclude_list,
                   loc, threads, passLog, lastDecision, molalignRuns>>
    /\ UNCHANGED <<mdVars, traj>>

(***************************************************************************)
(* The loop of a pass: one candidate                                       *)
(***************************************************************************)
\* the same comparison with signed numbers
RankReachedSigned(n) == n >= cfg.rank

\* m_result.size() >= m_maxrank, an unsigned comparison: a negative rank is
\* a number no size reaches
RankReached(n) == cfg.rank >= 0 /\ n >= cfg.rank

\* the workers get the candidate, and the pool starts none of them
SetTargetsIdle(ths, mol1, rules, everyone) ==
    [i \in DOMAIN ths |->
        [ths[i] EXCEPT !.tgt = mol1,
                       !.rules = IF ths[i].kind = "reorder" THEN rules ELSE @,
                       !.state = "idle"]]

\* the workers get the candidate and keep the rule list of their creation
SetTargetsStale(ths, mol1, rules, everyone) ==
    [i \in DOMAIN ths |->
        [ths[i] EXCEPT !.tgt = mol1,
                       !.state = IF everyone \/ ths[i].enabled THEN "pending" ELSE "idle"]]

\* the workers of the pool get the candidate as their target
SetTargets(ths, mol1, rules, everyone) ==
    [i \in DOMAIN ths |->
        [ths[i] EXCEPT !.tgt = mol1,
                       !.rules = IF ths[i].kind = "reorder" THEN rules ELSE @,
                       !.state = IF everyone \/ ths[i].enabled THEN "pending" ELSE "idle"]]

\* CheckOnly, lines 981-1030: the loop body up to the start of the pool
CandidateCheckOnly ==
    LET mol1 == cached[idx]
    IN  IF m_skip # 0
        THEN /\ m_skip' = m_skip - 1
             /\ idx' = idx + 1
             /\ UNCHANGED <<pc, threads, setVars>>
        ELSE IF cfg.rank <= m_accepted /\ cfg.rank > -1
        THEN /\ idx' = idx + 1
             /\ UNCHANGED <<pc, threads, setVars, m_skip>>
        ELSE IF mol[mol1].check = 1
        THEN /\ m_rejected' = m_rejected + 1
             /\ idx' = idx + 1
             /\ UNCHANGED <<pc, threads, m_skip, m_result, m_stored_structures,
                            m_rejected_structures, m_threshold, m_all_structures,
                            m_accepted, m_lowest_energy>>
        ELSE IF Len(m_result) = 0
        THEN /\ m_result' = Append(m_result, mol1)
             /\ m_stored_structures' = Append(m_stored_structures, mol1)
             /\ m_accepted' = m_accepted + 1
             /\ threads' = Append(threads,
                                  addThreadNoreorder(mol1, label[mol1], m_rmsd_threshold))
             /\ m_all_structures' = Append(m_all_structures, mol1)
             /\ m_lowest_energy' = mol[mol1].energy
             /\ idx' = idx + 1
             /\ UNCHANGED <<pc, m_skip, m_rejected_structures, m_threshold, m_rejected>>
        ELSE /\ threads' = SetTargets(threads, mol1, <<>>, TRUE)
             /\ pc' = "pool"
             /\ UNCHANGED <<idx, m_skip, setVars>>

\* Reorder, lines 1225-1271: which workers compare the candidate.  The loop
\* asks for the stop file before every worker; stopAt is the worker at which
\* the file is found (0: it is not found).
RECURSIVE Gate(_, _, _)
Gate(g, t, stopAt) ==
    IF t > Len(g.threads) THEN g
    ELSE IF t = stopAt THEN [g EXCEPT !.stopped = TRUE]
    ELSE
    LET mol2 == g.threads[t].ref
        dI == Abs(mol[g.cand].rot - mol[mol2].rot)
        dH == Abs(mol[g.cand].img - mol[mol2].img)
        dE == Abs(mol[g.cand].energy - mol[mol2].energy)
        looseThresh == (IF dI < loc.dLI THEN 1 ELSE 0) + (IF dH < loc.dLH THEN 2 ELSE 0)
                           + (IF dE < loc.dLE THEN 4 ELSE 0)
        tightThresh == (IF dI < m_dT.I THEN 1 ELSE 0) + (IF dH < m_dT.H THEN 2 ELSE 0)
                           + (IF dE < m_dT.E THEN 4 ELSE 0)
    IN  IF MaskCovers(looseThresh, m_looseThresh)
           \/ (loc.dLI <= 0 /\ loc.dLH <= 0 /\ loc.dLE <= 0)
        THEN IF <<g.cand, mol2>> \in g.exclude
             THEN Gate(g, t + 1, stopAt)
             ELSE IF MaskCovers(tightThresh, cfg.tightThresh)
             THEN [g EXCEPT !.threads[t].enabled = TRUE,
                            !.threshold = Append(@, mol2),
                            !.reorder = FALSE,
                            !.keep = FALSE]
             ELSE Gate([g EXCEPT !.threads[t].enabled = TRUE,
                                 !.reorder = TRUE,
                                 !.exclude = @ \cup {<<g.cand, mol2>>}],
                       t + 1, stopAt)
        ELSE Gate([g EXCEPT !.threads[t].enabled = FALSE], t + 1, stopAt)

\* where the gating loop can find the stop file
StopPoints ==
    IF threads = <<>> THEN {0}
    ELSE IF stop THEN {1}
    ELSE IF cfg.stoppable THEN 0..Len(threads)
    ELSE {0}

\* Reorder, lines 1372-1382: accept or reject the candidate, then the rank limit
Settle(mol1, keep, lab, ths, cache) ==
    /\ label' = [label EXCEPT ![mol1] = lab]
    /\ IF keep
       THEN /\ m_result' = Append(m_result, mol1)
            /\ m_stored_structures' = Append(m_stored_structures, mol1)
            /\ m_accepted' = m_accepted + 1
            /\ threads' = Append(ths, addThread(mol1, lab, m_rmsd_threshold, cache,
                                                loc.reuse_only))
            /\ UNCHANGED <<m_rejected_structures, m_rejected>>
       ELSE /\ m_rejected_structures' = Append(m_rejected_structures, mol1)
            /\ m_rejected' = m_rejected + 1
            /\ threads' = ths
            /\ UNCHANGED <<m_result, m_stored_structures, m_accepted>>
    /\ idx' = IF RankReached(Len(m_result')) THEN Len(cached) + 1 ELSE idx + 1
    /\ pc' = "loop"

\* Reorder, lines 1197-1299 and, without a pool run, 1370-1382
CandidateReorder ==
    LET mol1 == cached[idx]
    IN  IF Len(m_result) = 0
        THEN /\ m_result' = Append(m_result, mol1)
             /\ m_stored_structures' = Append(m_stored_structures, mol1)
             /\ m_accepted' = m_accepted + 1
             /\ threads' = Append(threads, addThread(mol1, label[mol1], m_rmsd_threshold,
                                                     m_reorder_rules, loc.reuse_only))
             /\ m_lowest_energy' = mol[mol1].energy
             /\ idx' = idx + 1
             /\ UNCHANGED <<pc, phase, label, stop, m_rejected_structures, m_threshold,
                            m_all_structures, m_rejected, m_exclude_list, passLog,
                            lastDecision>>
        ELSE IF mol[mol1].energy - m_lowest_energy > cfg.maxenergy /\ cfg.maxenergy # -1
        THEN /\ idx' = Len(cached) + 1
             /\ UNCHANGED <<pc, phase, label, stop, threads, setVars, m_exclude_list,
                            passLog, lastDecision>>
        ELSE \E stopAt \in StopPoints :
             LET g == Gate([cand |-> mol1, threads |-> threads, exclude |-> m_exclude_list,
                            threshold |-> m_threshold, reorder |-> FALSE, keep |-> TRUE,
                            stopped |-> FALSE], 1, stopAt)
             IN  /\ m_exclude_list' = g.exclude
                 /\ m_threshold' = g.threshold
                 /\ stop' = (stop \/ g.stopped)
                 /\ UNCHANGED <<m_all_structures, m_lowest_energy>>
                 /\ IF g.stopped
                    THEN /\ pc' = "next"
                         /\ phase' = phase + 1
                         /\ threads' = <<>>
                         /\ passLog' = LogPass(pass, m_stored_structures, FALSE)
                         /\ UNCHANGED <<idx, label, m_result, m_stored_structures,
                                        m_rejected_structures, m_accepted, m_rejected,
                                        lastDecision>>
                    ELSE IF g.reorder /\ g.keep
                    THEN /\ threads' = SetTargets(g.threads, mol1,
                                                  m_reorder_rules \o loc.rules, Sequential)
                         /\ pc' = "pool"
                         /\ UNCHANGED <<idx, phase, label, m_result, m_stored_structures,
                                        m_rejected_structures, m_accepted, m_rejected,
                                        passLog, lastDecision>>
                    ELSE /\ Settle(mol1, g.keep, label[mol1], g.threads, m_reorder_rules)
                         /\ lastDecision' = [cand |-> mol1, kind |-> pass,
                                             rejected |-> ~g.keep, via |-> "gate",
                                             workers |-> g.threads]
                         /\ UNCHANGED <<phase, passLog>>

\* the loop of the running pass takes its next candidate.  CheckOnly never
\* asks for the stop file (lines 960-1116 hold no CheckStop): the file can
\* appear while the initial pass runs, and the pass takes no notice of it
Candidate ==
    /\ pc = "loop"
    /\ idx <= Len(cached)
    /\ IF pass = "initial"
       THEN /\ CandidateCheckOnly
            /\ stop' \in StopChoice
            /\ UNCHANGED <<phase, label, m_exclude_list, passLog, lastDecision>>
       ELSE /\ CandidateReorder
            /\ UNCHANGED m_skip
    /\ UNCHANGED <<inputVars, threshVars, pass, cached, m_looseThresh, m_skipreuse,
                   m_reorder_rules, loc, molalignRuns, accepted_file>>
    /\ UNCHANGED <<mdVars, traj>>

(***************************************************************************)
(* The pool.  StartAndWait forks the enabled workers and joins them; a     *)
(* worker that signals break_pool lets the pool return without starting    *)
(* the workers still waiting, while workers already started finish.        *)
(* CheckOnly selects the static pool, which joins all its workers.  With   *)
(* method molalign and one thread Reorder calls execute() itself, worker   *)
(* by worker, until one of them rejects.                                   *)
(***************************************************************************)
InOrder == pass # "initial" /\ Sequential

Execute(i) ==
    /\ pc = "pool"
    /\ i \in DOMAIN threads
    /\ threads[i].state = "pending"
    /\ InOrder => \A j \in 1..(i - 1) : threads[j].state = "done" /\ threads[j].keep
    /\ threads' = [threads EXCEPT ![i] = ExecuteThread(@, label[@.tgt])]
    /\ UNCHANGED <<inputVars, label, stop, setVars, threshVars, ctrlVars, m_reorder_rules,
                   m_exclude_list, loc, passLog, lastDecision, molalignRuns,
                   accepted_file>>
    /\ UNCHANGED <<mdVars, traj>>

Joined ==
    \/ \A i \in DOMAIN threads : threads[i].state # "pending"
    \/ /\ InOrder
       /\ \E i \in DOMAIN threads : threads[i].state = "done" /\ ~threads[i].keep
    \/ /\ pass # "initial"
       /\ ~InOrder
       /\ \E i \in DOMAIN threads : threads[i].state = "done" /\ threads[i].brk

\* CheckOnly, lines 1031-1071: the results of the workers, in their order
RECURSIVE ScanInitial(_, _)
ScanInitial(a, i) ==
    IF i > Len(threads) THEN a
    ELSE
    LET t == threads[i]
        dE == Abs(mol[t.ref].energy - mol[a.cand].energy)
        listed == [a EXCEPT !.list = @ \cup {<<t.rmsd, dE, t.DH, t.DI>>}]
        tight == [listed EXCEPT
                    !.dT = [I |-> Max(@.I, IF 10 * t.rmsd <= cfg.sTI * m_rmsd_threshold
                                           THEN t.DI ELSE 0),
                            H |-> Max(@.H, IF 10 * t.rmsd <= cfg.sTH * m_rmsd_threshold
                                           THEN t.DH ELSE 0),
                            E |-> Max(@.E, IF 10 * t.rmsd <= cfg.sTE * m_rmsd_threshold
                                           THEN dE ELSE 0)]]
    IN  IF ~m_rmsd_set
        THEN ScanInitial([listed EXCEPT !.min_rmsd = Min(@, t.rmsd), !.keep = TRUE], i + 1)
        ELSE IF ~t.keep THEN [tight EXCEPT !.keep = FALSE]
        ELSE ScanInitial(tight, i + 1)

\* CheckOnly, lines 1031-1086
CollectCheckOnly ==
    LET mol1 == cached[idx]
        a == ScanInitial([cand |-> mol1, list |-> m_listThresh, min_rmsd |-> MinRmsdStart,
                          keep |-> TRUE, dT |-> m_dT], 1)
    IN  /\ m_listThresh' = a.list
        /\ m_dT' = a.dT
        /\ IF a.keep
           THEN /\ threads' = Append(threads,
                                     addThreadNoreorder(mol1, label[mol1], m_rmsd_threshold))
                /\ m_result' = Append(m_result, mol1)
                /\ m_stored_structures' = Append(m_stored_structures, mol1)
                /\ m_accepted' = m_accepted + 1
                /\ UNCHANGED <<m_rejected_structures, m_rejected>>
           ELSE /\ m_rejected_structures' = Append(m_rejected_structures, mol1)
                /\ m_rejected' = m_rejected + 1
                /\ UNCHANGED <<threads, m_result, m_stored_structures, m_accepted>>
        /\ m_rmsd_threshold' = IF ~m_rmsd_set THEN Min(a.min_rmsd, m_rmsd_threshold)
                               ELSE m_rmsd_threshold
        /\ m_all_structures' = Append(m_all_structures, mol1)
        /\ idx' = idx + 1
        /\ pc' = "loop"
        /\ lastDecision' = [cand |-> mol1, kind |-> pass, rejected |-> ~a.keep,
                            via |-> "pool", workers |-> threads]
        /\ UNCHANGED <<label, m_reorder_rules, loc, molalignRuns, m_dL, m_rmsd_set,
                       m_threshold, m_lowest_energy>>

\* Reorder, lines 1300-1368: the results of the workers, in their order
RECURSIVE Aggregate(_, _)
Aggregate(a, i) ==
    IF i > Len(a.threads) THEN a
    ELSE
    LET t == a.threads[i]
    IN  IF ~t.enabled
        THEN Aggregate([a EXCEPT !.threads[i].enabled = TRUE], i + 1)
        ELSE IF ~t.keep
        THEN Aggregate([a EXCEPT
                          !.cache = AddRules(@, t.rule),
                          !.rules = IF AddRulesAccepts(t.rule) THEN Append(@, t.rule) ELSE @,
                          !.lab = IF a.keep THEN ApplyReorderRule(t.rule, @) ELSE @,
                          !.keep = FALSE], i + 1)
        ELSE IF cfg.domolalign > 1 /\ t.rmsd < cfg.domolalign * m_rmsd_threshold
        THEN LET found == ReorderRules(t.refLabel, a.lab)
                 reordered == ApplyOrder(found, a.lab)
                 rmsd == Rules2RMSD(Identity, t.ref, t.refLabel, a.cand, reordered)
             IN  Aggregate([a EXCEPT
                              !.lab = reordered,
                              !.keep = IF rmsd < m_rmsd_threshold THEN FALSE ELSE @,
                              !.molalign = Append(@, [kind |-> pass, ref |-> t.ref,
                                                      cand |-> a.cand])], i + 1)
        ELSE Aggregate(a, i + 1)

\* Reorder, lines 1300-1382
CollectReorder ==
    LET mol1 == cached[idx]
        a == Aggregate([cand |-> mol1, threads |-> threads, keep |-> TRUE,
                        lab |-> label[mol1], cache |-> m_reorder_rules,
                        rules |-> loc.rules, molalign |-> molalignRuns], 1)
    IN  /\ m_reorder_rules' = a.cache
        /\ loc' = [loc EXCEPT !.rules = a.rules]
        /\ molalignRuns' = a.molalign
        /\ Settle(mol1, a.keep, a.lab, a.threads, a.cache)
        /\ lastDecision' = [cand |-> mol1, kind |-> pass, rejected |-> ~a.keep,
                            via |-> "pool", workers |-> threads]
        /\ UNCHANGED <<threshVars, m_threshold, m_all_structures, m_lowest_energy>>

\* the pool has returned: the decision about the candidate
Collect ==
    /\ pc = "pool"
    /\ Joined
    /\ IF pass = "initial" THEN CollectCheckOnly ELSE CollectReorder
    /\ UNCHANGED <<inputVars, stop, phase, pass, cached, m_looseThresh, m_skipreuse,
                   m_skip, m_exclude_list, passLog, accepted_file>>
    /\ UNCHANGED <<mdVars, traj>>

Next ==
    \/ SetUp
    \/ NextPass
    \/ Candidate
    \/ \E i \in Mols : Execute(i)
    \/ Collect
    \/ EndPass
    \/ Finalise

(***************************************************************************)
(* Specifications                                                          *)
(***************************************************************************)
\* shapes next to each other, and shapes that are two apart
CloseShapes == 0..(MaxShape \div 2)

SpreadShapes == {x \in 0..MaxShape : x % 2 = 0} \cup {1}

\* all lists over S of length n or less
RECURSIVE ListsUpTo(_, _)
ListsUpTo(S, n) ==
    IF n = 0 THEN {<<>>}
    ELSE LET shorter == ListsUpTo(S, n - 1)
         IN  shorter \cup {Append(l, x) : l \in shorter, x \in S}

\* a restart file with the given rules
RestartFile(list) == [parses |-> TRUE, ReorderRules |-> list]

\* a restart file that is not JSON
BrokenFile == [parses |-> FALSE, ReorderRules |-> <<>>]

\* structures of the plain ensembles: two energies, every shape, equal
\* descriptors, and one structure that fails the connectivity check
PlainMols ==
    [energy : {0, 1}, shape : CloseShapes, rot : {0}, img : {0}, hb : {0}, check : {0}]
        \cup {[energy |-> 0, shape |-> 0, rot |-> 0, img |-> 0, hb |-> 0, check |-> 1]}

\* user threshold or calibration, reuse pass over the accepted or over all
\* structures, and every other keyword of the scanner changed once
PlainControllers ==
    {[BaseController EXCEPT !.rmsd = r, !.reset = x] : r \in {-1, 1, 2}, x \in BOOLEAN}
        \cup {[BaseController EXCEPT !.skipinit = TRUE],
              [BaseController EXCEPT !.skipinit = TRUE, !.rmsd = -1],
              [BaseController EXCEPT !.skipreorder = TRUE],
              [BaseController EXCEPT !.skipreuse = TRUE],
              [BaseController EXCEPT !.mapped = TRUE, !.sLE = <<1, 2>>,
                                     !.sLI = <<1, 2>>, !.sLH = <<1, 2>>],
              [BaseController EXCEPT !.sLE = <<1, 2>>, !.sLI = <<1, 2>>,
                                     !.sLH = <<1, 2>>, !.looseThresh = 7],
              [BaseController EXCEPT !.ignoreRotation = TRUE, !.ignoreBarCode = TRUE],
              [BaseController EXCEPT !.rank = 2],
              [BaseController EXCEPT !.maxenergy = 0],
              [BaseController EXCEPT !.skip = 1],
              [BaseController EXCEPT !.stoppable = TRUE],
              [BaseController EXCEPT !.method = "molalign", !.threads = 1],
              [BaseController EXCEPT !.control = <<[MaxRank |-> 2, RMSDThreshold |-> 2]>>],
              [BaseController EXCEPT !.earlybreak = 3]}

Init == InitWith(PlainControllers, PlainMols, Perms)

Spec == Init /\ [][Next]_vars

(***************************************************************************)
(* Properties                                                              *)
(***************************************************************************)
NonDecreasing(list) ==
    \A i, j \in DOMAIN list : i < j => mol[list[i]].energy <= mol[list[j]].energy

ThresholdFreezing ==
    [][/\ m_rmsd_threshold' # m_rmsd_threshold => phase = 0
       /\ pass' \in {"reorder", "reuse"} =>
             \A i \in DOMAIN threads' : threads'[i].thr = m_rmsd_threshold']_vars

\* the initial pass calibrated the threshold, and the reuse pass runs with
\* two workers
ThresholdFreezingWitness ==
    /\ pass = "reuse"
    /\ Len(threads) >= 2
    /\ m_rmsd_threshold # LoadedThreshold(cfg)

\* C1 as stated -- Scanner monotonicity: a structure in the accepted set at
\* the end of a pass is in the accepted set at the end of every later pass.
ScannerMonotonicity ==
    \A i, j \in DOMAIN passLog :
        i < j /\ passLog[i].complete /\ passLog[j].complete =>
            ToSet(passLog[i].accepted) \subseteq ToSet(passLog[j].accepted)

\* C1 -- When the reuse pass does not start again from all structures
\* (reset off), the accepted set only shrinks: a structure in the accepted
\* set at the end of a pass was in the accepted set at the end of every
\* earlier pass.
AcceptedOnlyShrinks ==
    ~cfg.reset =>
        \A i, j \in DOMAIN passLog :
            i < j => ToSet(passLog[j].accepted) \subseteq ToSet(passLog[i].accepted)

\* three passes are through, and the reorder iteration rejected a structure
\* the initial pass had accepted
AcceptedOnlyShrinksWitness ==
    /\ ~cfg.reset
    /\ Len(passLog) = 3
    /\ \A i \in DOMAIN passLog : passLog[i].complete
    /\ \E m \in ToSet(passLog[1].accepted) : m \notin ToSet(passLog[2].accepted)

(***************************************************************************)
(* The rule cache: restart files with every list of rules up to MaxRules,  *)
(* a broken file, two files, no restart, no storing of rules.              *)
(***************************************************************************)
RuleMols ==
    [energy : {0}, shape : CloseShapes, rot : {0}, img : {0}, hb : {0}, check : {0}]

RuleControllers ==
    {[BaseController EXCEPT !.restartFiles = <<RestartFile(l)>>] :
        l \in ListsUpTo({Identity, Swap, WrongLength}, MaxRules)}
    \cup {[BaseController EXCEPT !.restartFiles = <<BrokenFile, RestartFile(<<Swap>>)>>],
          [BaseController EXCEPT !.restartFiles =
               <<RestartFile(<<Swap, WrongLength>>), RestartFile(<<Identity, Swap>>)>>],
          [BaseController EXCEPT !.restartFiles = <<RestartFile(<<Swap, Swap>>)>>,
                                 !.skip_orders = TRUE],
          [BaseController EXCEPT !.restartFiles = <<RestartFile(<<Swap, Swap>>)>>,
                                 !.restart = FALSE]}

InitRules == InitWith(RuleControllers, RuleMols, Perms)

SpecRules == InitRules /\ [][Next]_vars

NoDuplicates(list) == \A i, j \in DOMAIN list : list[i] = list[j] => i = j

IsPrefix(a, b) == Len(a) <= Len(b) /\ \A i \in DOMAIN a : a[i] = b[i]

\* C5 -- Rule cache: after every restart load and every AddRules call the
\* cache holds no permutation twice, and what was in the cache before is
\* still there, at the same place: a new rule is appended at the end.
RuleCacheInvariant ==
    [][NoDuplicates(m_reorder_rules') /\ IsPrefix(m_reorder_rules, m_reorder_rules')]_vars

\* rules came from a restart file, AddRules appended one that was not cached,
\* and AddRules was called again with a cached one
RuleCacheWitness ==
    /\ Len(LoadRestartInformation(<<>>, cfg.restartFiles)) >= 1
    /\ Len(m_reorder_rules) > Len(LoadRestartInformation(<<>>, cfg.restartFiles))
    /\ \E i, j \in DOMAIN loc.rules : i < j /\ loc.rules[i] = loc.rules[j]

(***************************************************************************)
(* The tight thresholds: masks that reject directly, multipliers below and *)
(* above one, structures that differ in their descriptors.                 *)
(***************************************************************************)
TightMols ==
    [energy : {0}, shape : SpreadShapes, rot : {0, 1}, img : {0}, hb : {0}, check : {0}]
        \cup {[energy |-> 1, shape |-> 2, rot |-> 1, img |-> 0, hb |-> 0, check |-> 0]}

TightControllers ==
    {[BaseController EXCEPT !.tightThresh = t, !.sTI = x, !.sTH = x, !.sTE = x] :
        t \in {0, 1, 7}, x \in {1, 10, 20}}

InitTight == InitWith(TightControllers, TightMols, Perms)

SpecTight == InitTight /\ [][Next]_vars

\* every two structures are further apart than the threshold, with the atoms
\* as they are and with the atoms reordered
AllFar ==
    \A a, b \in Mols :
        a # b => /\ BestFitRMSD(a, label[a], b, label[b]) > m_rmsd_threshold
                 /\ ReorderedRMSD(a, label[a], b, label[b]) > m_rmsd_threshold

\* a run through all passes over all structures: no rank limit, no energy
\* window, nothing skipped, no stop file
FullRun ==
    /\ pc = "done"
    /\ ~stop
    /\ cfg.rank = -1 /\ cfg.maxenergy = -1 /\ cfg.skip = 0
    /\ \A m \in Mols : mol[m].check = 0

\* C2 as stated -- Scanner idempotence: an ensemble in which every two
\* structures are further apart than the threshold is accepted as a whole,
\* whatever the descriptors are.
IdempotenceAsStated ==
    FullRun /\ AllFar => ToSet(accepted_file) = Mols

\* C2 -- An ensemble in which every two structures are further apart than
\* the threshold is accepted as a whole when the tight mask is not empty and
\* no tight multiplier is above one: then no structure is rejected by its
\* descriptors alone.
IdempotenceWithoutDirectReject ==
    /\ FullRun
    /\ AllFar
    /\ cfg.tightThresh # 0
    /\ cfg.sTE <= 10 /\ cfg.sTI <= 10 /\ cfg.sTH <= 10
    => ToSet(accepted_file) = Mols

\* such a run, with structures of different descriptors and atom orders
IdempotenceWitness ==
    /\ FullRun
    /\ AllFar
    /\ cfg.tightThresh # 0
    /\ cfg.sTI <= 10
    /\ Len(passLog) = 3
    /\ ToSet(accepted_file) = Mols
    /\ \E a, b \in Mols : mol[a].rot # mol[b].rot /\ mol[a].energy # mol[b].energy
    /\ \E a, b \in Mols : label[a] # label[b]

\* C3 as stated -- at the end of every pass no structure is both in the
\* accepted set and in m_threshold, and none is both accepted and rejected.
ResultSetsDisjoint ==
    pc = "next" /\ passLog # <<>> =>
        /\ ToSet(m_stored_structures) \cap ToSet(m_threshold) = {}
        /\ ToSet(m_stored_structures) \cap ToSet(m_rejected_structures) = {}

(***************************************************************************)
(* Thresholds and topology: structures at, below and above the threshold,  *)
(* with and without a limit on the difference of the hydrogen bonds, and a *)
(* rule cache filled from a restart file.                                  *)
(***************************************************************************)
TopoMols ==
    [energy : {0}, shape : CloseShapes, rot : {0}, img : {0}, hb : {0, 1}, check : {0}]

TopoControllers ==
    {[BaseController EXCEPT !.MaxHTopoDiff = h, !.rmsd = r, !.earlybreak = e,
                            !.restartFiles = f] :
        h \in {-1, 0}, r \in {1, 2}, e \in {0, 3},
        f \in {<<>>, <<RestartFile(<<Swap>>)>>,
               <<RestartFile(<<WrongLength, Identity, Swap>>)>>}}

InitTopo == InitWith(TopoControllers, TopoMols, Perms)

SpecTopo == InitTopo /\ [][Next]_vars

\* the initial pass has just decided about a candidate, with a threshold the
\* user has set
DecidedInitial ==
    /\ pass = "initial"
    /\ lastDecision.kind = "initial"
    /\ cfg.rmsd >= 0

\* the best-fit RMSD of the candidate of the last decision to the reference
\* of worker w
BestFitOf(w) ==
    BestFitRMSD(w.ref, w.refLabel, lastDecision.cand, label[lastDecision.cand])

\* C6 as stated -- Pass 1: the candidate is rejected if and only if its
\* smallest best-fit RMSD to the accepted structures is strictly below the
\* threshold; at the threshold it is accepted.
PassOneStrictlyBelow ==
    DecidedInitial =>
        (lastDecision.rejected <=>
            \E i \in DOMAIN lastDecision.workers :
                BestFitOf(lastDecision.workers[i]) < m_rmsd_threshold)

\* C6 -- Pass 1 with a user-set threshold: the candidate is rejected if and
\* only if there is an accepted structure with a best-fit RMSD below or equal
\* to the threshold and a difference of the hydrogen-bond topology that
\* MaxHTopoDiff allows; a candidate at the threshold is rejected.
PassOneAtOrBelow ==
    DecidedInitial =>
        (lastDecision.rejected <=>
            \E i \in DOMAIN lastDecision.workers :
                LET w == lastDecision.workers[i]
                IN  /\ BestFitOf(w) <= m_rmsd_threshold
                    /\ \/ cfg.MaxHTopoDiff = -1
                       \/ HBondTopoDifference(w.ref, lastDecision.cand) <= cfg.MaxHTopoDiff)

\* a candidate rejected at the threshold, by the second of two workers
PassOneWitness ==
    /\ DecidedInitial
    /\ lastDecision.rejected
    /\ Len(lastDecision.workers) = 2
    /\ BestFitOf(lastDecision.workers[1]) > m_rmsd_threshold
    /\ BestFitOf(lastDecision.workers[2]) = m_rmsd_threshold

\* the driver call a comes before the driver call b in the log of worker t
CalledBefore(t, a, b) ==
    \E i, j \in DOMAIN t.calls : i < j /\ t.calls[i] = a /\ t.calls[j] = b

\* the workers of the running pool that have started the search
Searching ==
    {i \in DOMAIN threads : /\ pc = "pool"
                            /\ threads[i].kind = "reorder"
                            /\ threads[i].state = "done"
                            /\ Contains(threads[i].calls, <<"start", 0>>)}

\* RMSD of cached rule k of worker t
RuleRMSD(t, k) == Rules2RMSD(t.rules[k], t.ref, t.refLabel, t.tgt, label[t.tgt])

\* C7 as stated -- Reuse before search: the search is started only after
\* every cached rule of the right length has been tried, and not at all when
\* a cached rule gives an RMSD below the threshold.
ReuseBeforeSearchAsStated ==
    \A i \in Searching :
        LET t == threads[i]
        IN  \A k \in DOMAIN t.rules :
                Len(t.rules[k]) = AtomCount =>
                    /\ CalledBefore(t, <<"Rules2RMSD", k>>, <<"start", 0>>)
                    /\ ~(RuleRMSD(t, k) < t.thr)

\* C7 -- Reuse before search: the search is started only after every cached
\* rule of the right length has been tried with Rules2RMSD, and not at all
\* when a cached rule gives an RMSD below the threshold with a difference of
\* the hydrogen-bond topology that MaxHTopoDiff allows.
ReuseBeforeSearch ==
    \A i \in Searching :
        LET t == threads[i]
        IN  \A k \in DOMAIN t.rules :
                Len(t.rules[k]) = AtomCount =>
                    /\ CalledBefore(t, <<"Rules2RMSD", k>>, <<"start", 0>>)
                    /\ ~(/\ RuleRMSD(t, k) < t.thr
                         /\ \/ cfg.MaxHTopoDiff = -1
                            \/ HBondTopoDifference(t.ref, t.tgt) <= cfg.MaxHTopoDiff)

\* a worker that has skipped a rule of the wrong length, tried two rules and
\* started the search
ReuseBeforeSearchWitness ==
    \E i \in Searching :
        LET t == threads[i]
        IN  /\ \E k \in DOMAIN t.rules : Len(t.rules[k]) # AtomCount
            /\ Len(t.calls) = 4
            /\ \E k \in DOMAIN t.rules : t.rules[k] = Swap

(***************************************************************************)
(* The second alignment of the aggregation (domolalign) and the early      *)
(* breaks of the pool.                                                     *)
(***************************************************************************)
MolalignMols ==
    [energy : {0}, shape : CloseShapes, rot : {0}, img : {0}, hb : {0, 1}, check : {0}]

MolalignControllers ==
    {[BaseController EXCEPT !.domolalign = d, !.earlybreak = e, !.MaxHTopoDiff = h,
                            !.rmsd = r, !.reset = x] :
        d \in {-1, 2}, e \in {0, 3}, h \in {-1, 0}, r \in {1, 2}, x \in BOOLEAN}

InitMolalign == InitWith(MolalignControllers, MolalignMols, Perms)

SpecMolalign == InitMolalign /\ [][Next]_vars

\* C8 as stated -- the reuse pass starts no search: no worker calls start(),
\* the aggregation aligns nothing anew, and the rule cache stays as it was
\* at the end of the pass before.
ReusePassNeverSearches ==
    /\ \A i \in DOMAIN molalignRuns : molalignRuns[i].kind # "reuse"
    /\ pass = "reuse" =>
          /\ \A i \in DOMAIN threads : ~Contains(threads[i].calls, <<"start", 0>>)
          /\ m_reorder_rules = passLog[Len(passLog)].rules

\* Reorder collects the results of a pool run
Aggregation ==
    /\ pc = "pool"
    /\ pc' # "pool"
    /\ pass # "initial"
    /\ ~InOrder

\* what worker i reports about the candidate when it runs
Report(i) == ExecuteReorder(threads[i], label[threads[i].tgt])

\* C10 as stated -- when no worker has signalled a break, the candidate is
\* rejected if and only if at least one enabled worker reports a match.
AggregationAsStated ==
    [][Aggregation /\ (\A i \in DOMAIN threads : ~threads[i].brk)
        => (lastDecision'.rejected <=>
               \E i \in DOMAIN threads : threads[i].enabled /\ ~threads[i].keep)]_vars

\* C10 -- Deterministic aggregation: whichever workers the pool has run and
\* in whichever order, the candidate is rejected if and only if an enabled
\* worker reports a match for it or, with domolalign > 1, a worker without a
\* match reports an RMSD below domolalign times the threshold and the new
\* alignment to its reference gives an RMSD below the threshold.
AggregationDeterministic ==
    [][Aggregation
        => (lastDecision'.rejected <=>
               \E i \in DOMAIN threads :
                   /\ threads[i].enabled
                   /\ \/ ~Report(i).keep
                      \/ /\ cfg.domolalign > 1
                         /\ Report(i).rmsd < cfg.domolalign * m_rmsd_threshold
                         /\ ReorderedRMSD(threads[i].ref, threads[i].refLabel,
                                          threads[i].tgt, label[threads[i].tgt])
                                < m_rmsd_threshold)]_vars

\* a decision taken after a break of the pool: one worker had a match and
\* another enabled worker had not run
AggregationWitness ==
    /\ lastDecision.kind = "reorder"
    /\ lastDecision.via = "pool"
    /\ lastDecision.rejected
    /\ \E i, j \in DOMAIN lastDecision.workers :
          /\ lastDecision.workers[i].state = "done"
          /\ lastDecision.workers[i].brk
          /\ lastDecision.workers[j].enabled
          /\ lastDecision.workers[j].state = "pending"

(***************************************************************************)
(* C11: the pool and the data the scanner shares with it                   *)
(***************************************************************************)
\* the rule cache and the sets and counters of the decisions
SharedSets ==
    <<m_reorder_rules, m_result, m_stored_structures, m_rejected_structures,
      m_accepted, m_rejected>>

\* StartAndWait has started its workers and has not returned
PoolRunning ==
    /\ pc = "pool"
    /\ \E i \in DOMAIN threads : threads[i].state = "pending"
    /\ ~(InOrder /\ \E i \in DOMAIN threads : threads[i].state = "done" /\ ~threads[i].keep)
    /\ ~(pass # "initial" /\ ~InOrder
          /\ \E i \in DOMAIN threads : threads[i].state = "done" /\ threads[i].brk)

\* Reorder, lines 1280-1284: the list every worker got before the pool started
HandedRules == m_reorder_rules \o loc.rules

\* every reorder worker of the pool holds the list handed to it
WorkersHoldHandedRules ==
    (pc = "pool" /\ pass # "initial") =>
        \A i \in DOMAIN threads :
            threads[i].kind = "reorder" => threads[i].rules = HandedRules

\* C11: while the pool runs (between its start and its join) no step changes
\* the rule cache or the accepted and rejected sets, a step that changes them
\* is taken with the pool not running, and every worker of a running pool
\* works on the copy of the rule list it was handed before the pool started.
PoolIsolation ==
    [][/\ (PoolRunning => SharedSets' = SharedSets)
       /\ (SharedSets' # SharedSets => ~PoolRunning)
       /\ WorkersHoldHandedRules']_vars

\* a pool of a reorder pass with a worker through and a worker still to run,
\* and a rule in the cache
PoolIsolationWitness ==
    /\ PoolRunning
    /\ pass # "initial"
    /\ m_reorder_rules # <<>>
    /\ \E i \in DOMAIN threads : threads[i].state = "done"

(***************************************************************************)
(* C12: the stop file                                                      *)
(***************************************************************************)
\* the step handles a candidate: it starts the pool for it, decides it, or
\* counts it as skipped or rejected
CandidateStarted ==
    \/ pc' = "pool"
    \/ SharedSets' # SharedSets
    \/ m_skip' # m_skip
    \/ lastDecision' # lastDecision

\* C12 (scanner): once the stop file exists the loop of no pass, the initial
\* pass included, starts on a further candidate.
StopFileEndsScan ==
    [][(stop /\ pc = "loop" /\ idx <= Len(cached)) => ~CandidateStarted]_vars

(***************************************************************************)
(* SimpleMD.  A frame (geometry or velocities) is a number, 0 when it is   *)
(* not there; a temperature is a natural number or NaN; a bond topology is *)
(* a set of atom pairs; a JSON value is "garbage" (no JSON), "null" or an  *)
(* object, a function from the names of its fields.                        *)
(***************************************************************************)
NAtoms == 4

MaxSteps == 3

MaxLaunch == 2

MaxThreads == 2

\* T > 10000 * m_T, lines 1759 and 2293
UnstableFactor == 10000

\* InitialiseWalls, lines 855-857: the smallest margin, 5 Angstrom
MinMargin == 5

\* the value std::isnan is true for
NaN == -1

\* frames and steps the model tells apart; in a run that goes on the later
\* ones are told apart as odd and even
MaxCount == MaxLaunch * MaxSteps + 2

Atoms == 0..(NAtoms - 1)

\* f[lo] \o ... \o f[hi]: what a loop from lo to hi appends
RECURSIVE Gather(_, _, _)
Gather(f, lo, hi) == IF lo > hi THEN <<>> ELSE f[lo] \o Gather(f, lo + 1, hi)

\* m.second(i, j) of Molecule::DistanceMatrix: the two atoms are bonded
Bonded(topo, i, j) == <<i, j>> \in topo \/ <<j, i>> \in topo

\* CalculateDistance(i, j) squared, for atoms on a line at their indices
Distance2(i, j) == (i - j) * (i - j)

\* InitConstrainedBonds, lines 737-741: with m_rattle == 2 only bonds to hydrogen
BondTaken(c, rattle, i, j) ==
    /\ j < i
    /\ Bonded(c.bonds, i, j)
    /\ rattle = 2 => (c.elements[i + 1] = 1 \/ c.elements[j + 1] = 1)

\* InitConstrainedBonds, lines 735-748: the 1-2 list
ConstrainedBonds12(c, rattle) ==
    IF rattle = 0 THEN <<>>
    ELSE Gather([i \in Atoms |->
            Gather([j \in Atoms |->
                IF BondTaken(c, rattle, i, j) /\ c.rattle_12
                THEN <<<<i, j, Distance2(i, j)>>>> ELSE <<>>], 0, i - 1)], 0, NAtoms - 1)

\* InitConstrainedBonds, lines 735-759: the 1-3 list
ConstrainedBonds13(c, rattle) ==
    IF rattle = 0 THEN <<>>
    ELSE Gather([i \in Atoms |->
            Gather([j \in Atoms |->
                IF BondTaken(c, rattle, i, j)
                THEN Gather([k \in Atoms |->
                        IF Bonded(c.bonds, k, j) /\ c.rattle_13
                        THEN <<<<i, k, Distance2(i, k)>>>> ELSE <<>>], 0, j - 1)
                ELSE <<>>], 0, i - 1)], 0, NAtoms - 1)

(***************************************************************************)
(* Restart records                                                         *)
(***************************************************************************)
\* Tools::Geometry2String and Tools::String2Geometry: a frame as text
Geometry2String(frame) == <<"frame", frame>>

String2Geometry(text) == text[2]

EmptyString == <<>>

\* JSON values
Garbage == [kind |-> "garbage", obj |-> <<>>]

JsonNull == [kind |-> "null", obj |-> <<>>]

JsonObject(fields) == [kind |-> "object", obj |-> fields]

\* the value has the field: state[name] gives a value
Has(j, name) == j.kind = "object" /\ name \in DOMAIN j.obj

\* BiasThread::getBias, lines 138-150: the records of the structures of a worker
BiasRecord(structure) == [index |-> structure.index, time |-> structure.time]

\* WriteRestartInformation, lines 1090-1101: the vector bias, filled by index
BiasVector(workers, count) ==
    [k \in 1..count |->
        IF \E w \in DOMAIN workers : \E n \in DOMAIN workers[w] :
              workers[w][n].index = k - 1
        THEN LET w == CHOOSE w \in DOMAIN workers :
                        \E n \in DOMAIN workers[w] : workers[w][n].index = k - 1
                 n == CHOOSE n \in DOMAIN workers[w] : workers[w][n].index = k - 1
             IN  JsonObject(BiasRecord(workers[w][n]))
        ELSE JsonNull]

\* WriteRestartInformation, lines 1103-1134: one constraint list as JSON
ConstraintElements(list) ==
    [n \in DOMAIN list |-> [i |-> list[n][1], j |-> list[n][2], d |-> list[n][3]]]

\* the members WriteRestartInformation reads
Current ==
    [dT |-> md_dT, MaxTime |-> m_maxtime,
     T0 |-> m_T0, currentStep |-> m_currentStep, geometry |-> m_eigen_geometry,
     velocities |-> m_eigen_velocities, rattle |-> m_rattle, rmsd_mtd |-> m_rmsd_mtd,
     mtd_steps |-> m_mtd_steps, count |-> m_bias_structure_count,
     workers |-> m_bias_threads, b12 |-> m_bond_constrained,
     b13 |-> m_bond_13_constrained]

\* WriteRestartInformation, lines 1041-1138
WriteRestartInformation(v) ==
    JsonObject(
        [dT |-> v.dT, MaxTime |-> v.MaxTime,
         T |-> v.T0, currentStep |-> v.currentStep,
         velocities |-> Geometry2String(v.velocities),
         geometry |-> Geometry2String(v.geometry),
         rattle |-> v.rattle, rmsd_mtd |-> v.rmsd_mtd]
        @@ (IF v.rmsd_mtd
            THEN [mtd_steps |-> v.mtd_steps, rmsd_ref_file |-> "mtd.xyz",
                  counter |-> v.count, bias |-> BiasVector(v.workers, v.count)]
            ELSE <<>>)
        @@ (IF v.rattle # 0
            THEN [constrains |->
                    (IF mdcfg.rattle_12
                     THEN [constrain_12 |-> TRUE,
                           num_constrain_12 |-> Len(v.b12),
                           constrains_12 |-> ConstraintElements(v.b12)]
                     ELSE <<>>)
                    @@ (IF mdcfg.rattle_13
                        THEN [constrain_13 |-> TRUE,
                              num_constrain_13 |-> Len(v.b13),
                              constrains_13 |-> ConstraintElements(v.b13)]
                        ELSE <<>>)]
            ELSE <<>>))

\* the members LoadRestartInformation can change
Members ==
    [dT |-> md_dT, MaxTime |-> m_maxtime,
     T0 |-> m_T0, currentStep |-> m_currentStep, geometry |-> m_eigen_geometry,
     velocities |-> m_eigen_velocities, rattle |-> m_rattle,
     rattle_tol_12 |-> m_rattle_tol_12, rmsd_mtd |-> m_rmsd_mtd,
     mtd_steps |-> m_mtd_steps, rmsd_ref_file |-> m_rmsd_ref_file,
     bias_json |-> m_bias_json, b12 |-> m_bond_constrained,
     b13 |-> m_bond_13_constrained, restart |-> m_restart]

\* LoadRestartInformation, lines 1354-1360 and 1368-1374: the elements read
\* before one is not there
RECURSIVE ReadConstraints(_, _, _)
ReadConstraints(elements, n, num) ==
    IF n > num \/ n \notin DOMAIN elements
                \/ {"i", "j", "d"} \ DOMAIN elements[n] # {}
    THEN <<>>
    ELSE <<<<elements[n].i, elements[n].j, elements[n].d>>>>
            \o ReadConstraints(elements, n + 1, num)

\* LoadRestartInformation, lines 1347-1381: one list of the block constrains.
\* done says that the loop came to its end
LoadConstraints(c, flag, num, elems, old) ==
    IF ~(flag \in DOMAIN c /\ c[flag]) THEN [list |-> old, done |-> TRUE]
    ELSE IF ~(num \in DOMAIN c /\ elems \in DOMAIN c) THEN [list |-> <<>>, done |-> FALSE]
    ELSE LET read == ReadConstraints(c[elems], 1, c[num])
         IN  [list |-> read, done |-> Len(read) = c[num]]

\* LoadRestartInformation(const json&), lines 1171-1386, with a field that is
\* not there taken as an exception of its try block
LoadRestartInformationMD(m, state) ==
    LET get(name, old) == IF Has(state, name) THEN state.obj[name] ELSE old
        geometry == get("geometry", EmptyString)
        velocities == get("velocities", EmptyString)
        rattle == get("rattle", m.rattle)
        mtd == get("rmsd_mtd", m.rmsd_mtd)
        inMtd == Has(state, "rmsd_mtd") /\ mtd
        hasSteps == inMtd /\ Has(state, "mtd_steps")
        hasFile == hasSteps /\ Has(state, "rmsd_ref_file")
        hasBias == hasFile /\ Has(state, "bias")
        c == IF Has(state, "constrains") THEN state.obj.constrains ELSE <<>>
        l12 == LoadConstraints(c, "constrain_12", "num_constrain_12", "constrains_12", m.b12)
        l13 == IF l12.done
               THEN LoadConstraints(c, "constrain_13", "num_constrain_13",
                                    "constrains_13", m.b13)
               ELSE [list |-> m.b13, done |-> FALSE]
    IN  [dT |-> get("dT", m.dT),
         MaxTime |-> get("MaxTime", m.MaxTime),
         T0 |-> get("T", m.T0),
         currentStep |-> get("currentStep", m.currentStep),
         geometry |-> IF geometry # EmptyString THEN String2Geometry(geometry)
                      ELSE m.geometry,
         velocities |-> IF velocities # EmptyString THEN String2Geometry(velocities)
                        ELSE m.velocities,
         rattle |-> rattle,
         rattle_tol_12 |-> IF rattle # 0 THEN get("rattle_tol_12", m.rattle_tol_12)
                           ELSE m.rattle_tol_12,
         rmsd_mtd |-> mtd,
         mtd_steps |-> IF hasSteps THEN state.obj.mtd_steps ELSE m.mtd_steps,
         rmsd_ref_file |-> IF hasFile THEN state.obj.rmsd_ref_file ELSE m.rmsd_ref_file,
         bias_json |-> IF hasBias THEN state.obj.bias ELSE m.bias_json,
         b12 |-> l12.list,
         b13 |-> l13.list,
         restart |-> geometry # EmptyString /\ velocities # EmptyString]

\* the fields LoadRestartInformation reads from an object whatever it holds
ReadAlways == {"dT", "MaxTime", "T", "currentStep", "geometry", "velocities", "rattle",
               "rmsd_mtd"}

\* a const operator[] of an object for a key it does not hold: undefined
\* behaviour (the library asserts the key), which the try blocks do not catch
ReadsMissingField(m, state) ==
    /\ state.kind = "object"
    /\ LET after == LoadRestartInformationMD(m, state)
           c == IF Has(state, "constrains") THEN state.obj.constrains ELSE <<>>
       IN  \/ ReadAlways \ DOMAIN state.obj # {}
           \/ after.rattle # 0 /\ ~Has(state, "rattle_tol_12")
           \/ /\ Has(state, "rmsd_mtd") /\ state.obj.rmsd_mtd
              /\ {"mtd_steps", "rmsd_ref_file", "bias"} \ DOMAIN state.obj # {}
           \/ ~LoadConstraints(c, "constrain_12", "num_constrain_12", "constrains_12",
                               m.b12).done
           \/ ~LoadConstraints(c, "constrain_13", "num_constrain_13", "constrains_13",
                               m.b13).done

(***************************************************************************)
(* The bias workers of the RMSD metadynamics                               *)
(***************************************************************************)
\* BiasThread::addGeometry(geometry, rmsd_reference, time, index)
BiasStructure(frame, time, index) == [geometry |-> frame, time |-> time, index |-> index]

\* BiasThread::addGeometry(geometry, json): the record of a restart
BiasStructureOf(frame, j) == [geometry |-> frame, time |-> j.obj.time, index |-> j.obj.index]

\* Initialise, lines 713-720: the structures of the reference file, worker by worker
RECURSIVE AddReference(_, _, _)
AddReference(workers, frames, index) ==
    IF frames = <<>> THEN workers
    ELSE AddReference([workers EXCEPT ![(index % Len(workers)) + 1] =
                            Append(@, BiasStructure(Head(frames), 0, index))],
                      Tail(frames), index + 1)

\* Initialise, lines 700-706: the structures of the file of a restart
RECURSIVE AddRestart(_, _, _, _)
AddRestart(workers, frames, bias, index) ==
    IF frames = <<>> THEN workers
    ELSE AddRestart([workers EXCEPT ![(index % Len(workers)) + 1] =
                          Append(@, BiasStructureOf(Head(frames), bias[index + 1]))],
                    Tail(frames), bias, index + 1)

\* m_bias_json[index] is a record with an index for every structure of the file
BiasRecordsThere(frames, bias) ==
    \A k \in 1..Len(frames) :
        k \in DOMAIN bias /\ Has(bias[k], "index") /\ Has(bias[k], "time")

\* ApplyRMSDMTD, lines 2316-2318: the first structure goes to worker 0
FirstStructure(b, frame, time) ==
    IF b.count = 0
    THEN [workers |-> [b.workers EXCEPT ![1] = Append(@, BiasStructure(frame, time, 0))],
          count |-> 1, file |-> <<frame>>]
    ELSE b

\* ApplyRMSDMTD with every new structure given to worker 0
ApplyRMSDMTDFirstWorker(b, current_bias, frame, time) ==
    LET first == FirstStructure(b, frame, time)
    IN  IF current_bias * mdcfg.rmsd_econv < first.count /\ ~mdcfg.rmsd_fix_structure
        THEN [workers |-> [first.workers EXCEPT ![1] =
                              Append(@, BiasStructure(frame, time, first.count))],
              count |-> first.count + 1,
              file |-> Append(first.file, frame)]
        ELSE first

\* ApplyRMSDMTD, lines 2300-2399, for the bias energy the workers return
ApplyRMSDMTD(b, current_bias, frame, time) ==
    LET first == FirstStructure(b, frame, time)
    IN  IF current_bias * mdcfg.rmsd_econv < first.count /\ ~mdcfg.rmsd_fix_structure
        THEN [workers |-> [first.workers EXCEPT ![(first.count % Len(first.workers)) + 1] =
                              Append(@, BiasStructure(frame, time, first.count))],
              count |-> first.count + 1,
              file |-> Append(first.file, frame)]
        ELSE first

(***************************************************************************)
(* The integrators                                                         *)
(***************************************************************************)
\* std::isnan
IsNan(T) == T = NaN

\* n + 1 for the number of a frame and for the step counter of start()
NextCount(n) == IF n < MaxCount THEN n + 1 ELSE MaxCount - 1

\* a * b for doubles: NaN when one of them is NaN
Times(a, b) == IF IsNan(a) \/ IsNan(b) THEN NaN ELSE a * b

\* a > b for doubles: false when one of them is NaN
Greater(a, b) == ~IsNan(a) /\ ~IsNan(b) /\ a > b

\* the thermostats, lines 2928-3006: the temperature of the velocities after
\* the call; None leaves them alone, the others draw them to T0
Thermostat(T) ==
    IF mdcfg.thermostat = "none" \/ IsNan(T) THEN T ELSE m_T0

\* lines 1717-1721 and 2128-2132: the integrators read the member m_step
MtdDue == m_rmsd_mtd /\ m_step % m_mtd_steps = 0

\* the bias workers, their counter and the file of the structures after the
\* metadynamics part of an integrator
AfterMtd(current_bias, frame) ==
    LET b == [workers |-> m_bias_threads, count |-> m_bias_structure_count,
              file |-> IF "mtd.xyz" \in DOMAIN disk THEN disk["mtd.xyz"] ELSE <<>>]
    IN  IF MtdDue THEN ApplyRMSDMTD(b, current_bias, frame, m_currentStep) ELSE b

\* Verlet, lines 1698-1764.  in: the temperature after the first half step,
\* the temperature after the second one, and the bias energy of the workers
Verlet(in) ==
    LET frame == NextCount(m_eigen_geometry)
    IN  [calls |-> <<<<"position", 0>>, <<"velocity1", 0>>, <<"thermostat", in.mid>>,
                     <<"energy", 0>>>>
                   \o (IF MtdDue THEN <<<<"mtd", 0>>>> ELSE <<>>)
                   \o <<<<"wall", 0>>, <<"velocity2", 0>>, <<"thermostat", in.T>>>>,
         geometry |-> frame,
         velocities |-> NextCount(m_eigen_velocities),
         mid |-> in.mid,
         unstable |-> Greater(in.T, Times(UnstableFactor, in.mid)) \/ IsNan(in.T),
         T |-> Thermostat(in.T),
         bias |-> AfterMtd(in.bias, frame),
         iter |-> <<0, 0>>,
         b12 |-> m_bond_constrained,
         b13 |-> m_bond_13_constrained]

\* Rattle with constraint loops that store the distance they reach in the
\* records of the 1-2 list
RattleStoring(in) ==
    LET frame == NextCount(m_eigen_geometry)
    IN  [calls |-> <<<<"restart", 0>>, <<"velocity1", 0>>, <<"rattle", in.iter1>>,
                     <<"position", 0>>, <<"thermostat", in.mid>>, <<"energy", 0>>>>
                   \o (IF MtdDue THEN <<<<"mtd", 0>>>> ELSE <<>>)
                   \o <<<<"wall", 0>>, <<"velocity2", 0>>, <<"rattle", in.iter2>>,
                        <<"thermostat", in.T>>>>,
         geometry |-> frame,
         velocities |-> NextCount(m_eigen_velocities),
         mid |-> in.mid,
         unstable |-> Greater(in.T, Times(UnstableFactor, in.mid)) \/ IsNan(in.T),
         T |-> Thermostat(in.T),
         bias |-> AfterMtd(in.bias, frame),
         iter |-> <<in.iter1, in.iter2>>,
         b12 |-> [n \in DOMAIN m_bond_constrained |->
                    <<m_bond_constrained[n][1], m_bond_constrained[n][2],
                      m_bond_constrained[n][3] + in.iter1>>],
         b13 |-> m_bond_13_constrained]

\* Rattle, lines 1766-2298.  in: as for Verlet, and the iterations the two
\* constraint loops take.  The loops go through copies of the constraint
\* records (for (auto bond : m_bond_constrained), lines 1819, 1931, 2077,
\* 2175 and 2223)
Rattle(in) ==
    LET frame == NextCount(m_eigen_geometry)
    IN  [calls |-> <<<<"restart", 0>>, <<"velocity1", 0>>, <<"rattle", in.iter1>>,
                     <<"position", 0>>, <<"thermostat", in.mid>>, <<"energy", 0>>>>
                   \o (IF MtdDue THEN <<<<"mtd", 0>>>> ELSE <<>>)
                   \o <<<<"wall", 0>>, <<"velocity2", 0>>, <<"rattle", in.iter2>>,
                        <<"thermostat", in.T>>>>,
         geometry |-> frame,
         velocities |-> NextCount(m_eigen_velocities),
         mid |-> in.mid,
         unstable |-> Greater(in.T, Times(UnstableFactor, in.mid)) \/ IsNan(in.T),
         T |-> Thermostat(in.T),
         bias |-> AfterMtd(in.bias, frame),
         iter |-> <<in.iter1, in.iter2>>,
         b12 |-> m_bond_constrained,
         b13 |-> m_bond_13_constrained]

\* LoadControlJson, lines 251-272: Integrator
Integrator(in) == IF mdcfg.rattle = 1 THEN Rattle(in) ELSE Verlet(in)

\* AdjustRattleTolerance, lines 1682-1696, with steps of one
AdjustRattleTolerance(tol, T) ==
    IF Greater(T, m_T0) THEN Abs(tol - 1)
    ELSE IF Greater(m_T0, T) THEN Abs(tol + 1)
    ELSE Abs(tol)

(***************************************************************************)
(* The confining walls.  The atoms of the molecule stand on a line: atom i *)
(* at origin + i * spacing on every axis, lengths in Angstrom; a frame of  *)
(* the run is the molecule moved by the number of the frame.               *)
(***************************************************************************)
Axes == {"x", "y", "z"}

\* m_eigen_geometry.data()[3 * i + axis]
Coordinate(c, frame, a, i) == c.origin[a] + i * c.spacing[a] + frame

\* InitialiseWalls, lines 831-852: the smallest coordinate of the atoms
MinCoordinate(c, frame, a) ==
    CHOOSE v \in {Coordinate(c, frame, a, i) : i \in Atoms} :
        \A i \in Atoms : v <= Coordinate(c, frame, a, i)

\* InitialiseWalls, lines 831-852: the largest coordinate of the atoms
MaxCoordinate(c, frame, a) ==
    CHOOSE v \in {Coordinate(c, frame, a, i) : i \in Atoms} :
        \A i \in Atoms : v >= Coordinate(c, frame, a, i)

\* InitialiseWalls, lines 855-857: std::max(0.2 * (max - min), 5.0); the
\* extents of the model are multiples of 5
Margin(extent) == Max((2 * extent) \div 10, MinMargin)

\* InitialiseWalls, lines 822-824
NeedsConfig(bounds) == (bounds[1] = 0 /\ bounds[2] = 0) \/ bounds[2] <= bounds[1]

\* InitialiseWalls, lines 859-872: the bounds of an axis from the geometry
AutoBounds(c, frame, a) ==
    LET lo == MinCoordinate(c, frame, a)
        hi == MaxCoordinate(c, frame, a)
    IN  <<lo - Margin(hi - lo), hi + Margin(hi - lo)>>

\* InitialiseWalls, lines 811-878, for a molecule with atoms (the branch for
\* m_natoms == 0, lines 881-899, is the one of an empty molecule)
InitialiseWalls(c, frame) ==
    [a \in Axes |-> IF NeedsConfig(c.wall[a]) THEN AutoBounds(c, frame, a)
                    ELSE c.wall[a]]

(***************************************************************************)
(* SimpleMD, step by step                                                  *)
(***************************************************************************)
\* what a file of the directory holds; a file that is not there does not parse
FileContent(name) == IF name \in DOMAIN disk THEN disk[name] ELSE Garbage

\* the structures of an xyz file; a file that is not there has none
Frames(name) == IF name \in DOMAIN disk THEN disk[name] ELSE <<>>

\* CurcumaMethod::TriggerWriteRestart: the restart file with the block of the method
TriggerWriteRestart(d, v) ==
    ("curcuma_restart.json" :> JsonObject([md |-> WriteRestartInformation(v)])) @@ d

\* std::remove
Remove(d, name) == [n \in DOMAIN d \ {name} |-> d[n]]

\* CheckStop in the MD loop: the stop file, once there, stays
MDStopChoice == IF stop THEN {TRUE} ELSE IF mdcfg.stoppable THEN BOOLEAN ELSE {FALSE}

\* the values the member m_step can have when start() runs: start() counts
\* the steps in a local variable of the same name (line 1420), nothing in
\* simplemd.cpp writes the member
MemberStepValues == 0..1

\* the values the member m_current_rescue can have when start() runs: nothing
\* in simplemd.cpp gives it a value before the loop (the first assignments are
\* in lines 1564 and 1580)
MemberRescueValues == {0, 3}

\* SimpleMD::SimpleMD and LoadControlJson, lines 154-329
ConstructMD ==
    /\ md_pc = "start"
    /\ md_pc' = "new"
    /\ launch' = launch + 1
    /\ m_initialised' = FALSE
    /\ m_restart' = FALSE
    /\ m_T0' = mdcfg.T
    /\ m_T' = 0
    /\ m_unstable' = FALSE
    /\ m_step' \in MemberStepValues
    /\ step' = 0
    /\ m_currentStep' = 0
    /\ aborted' = FALSE
    /\ m_eigen_geometry' = 0
    /\ m_eigen_velocities' = 0
    /\ m_rmsd_mtd' = mdcfg.rmsd_mtd
    /\ m_mtd_steps' = mdcfg.mtd_steps
    /\ m_rmsd_ref_file' = mdcfg.rmsd_ref_file
    /\ m_bias_json' = <<>>
    /\ m_bias_threads' = <<>>
    /\ m_bias_structure_count' = 0
    /\ m_rattle' = IF mdcfg.rattle = 1 THEN 1 ELSE 0
    /\ m_rattle_tol_12' = mdcfg.rattle_tol_12
    /\ m_bond_constrained' = <<>>
    /\ m_bond_13_constrained' = <<>>
    /\ states' = <<>>
    /\ calls' = <<>>
    /\ midT' = 0
    /\ rattle_iter' = <<0, 0>>
    /\ m_wall' = <<>>
    /\ md_dT' = mdcfg.dT
    /\ m_maxtime' = mdcfg.MaxTime
    /\ m_current_rescue' \in MemberRescueValues
    /\ exit_by' = "none"
    /\ UNCHANGED <<mdcfg, disk, stop, scanVars, traj>>

\* LoadRestartInformation(), lines 1140-1169: the block of the first restart
\* file that parses
RECURSIVE FirstRestart(_)
FirstRestart(names) ==
    IF names = <<>> THEN [how |-> "none", json |-> JsonNull]
    ELSE LET f == FileContent(Head(names))
         IN  IF f.kind = "garbage" THEN FirstRestart(Tail(names))
             ELSE IF Has(f, "md") THEN [how |-> "load", json |-> f.obj.md]
             ELSE [how |-> "load", json |-> JsonNull]

\* Initialise, lines 470-483: where the restart record comes from
InitSource ==
    IF mdcfg.initfile # "none"
    THEN LET f == FileContent(mdcfg.initfile)
         IN  IF f.kind = "garbage" THEN [how |-> "throw", json |-> JsonNull]
             ELSE [how |-> "load", json |-> f]
    ELSE IF mdcfg.restart THEN FirstRestart(mdcfg.restartFiles)
    ELSE [how |-> "none", json |-> JsonNull]

\* Initialise, lines 685-722: the bias workers and their structures
InitialBias(m) ==
    LET empty == [w \in 1..mdcfg.threads |-> <<>>]
        frames == Frames(m.rmsd_ref_file)
    IN  IF ~m.rmsd_mtd THEN [workers |-> <<>>, count |-> 0]
        ELSE IF m.restart
        THEN [workers |-> AddRestart(empty, frames, m.bias_json, 0), count |-> Len(frames)]
        ELSE IF m.rmsd_ref_file # "none"
        THEN [workers |-> AddReference(empty, frames, 0), count |-> Len(frames)]
        ELSE [workers |-> empty, count |-> 0]

\* Initialise, lines 442-728
InitialiseMD ==
    /\ md_pc = "new"
    /\ LET src == InitSource
           m == IF src.how = "load" THEN LoadRestartInformationMD(Members, src.json)
                ELSE Members
           undefined == src.how = "load" /\ ReadsMissingField(Members, src.json)
           noRecord == /\ m.rmsd_mtd /\ m.restart
                       /\ ~BiasRecordsThere(Frames(m.rmsd_ref_file), m.bias_json)
       IN  \E crash \in (IF noRecord THEN {TRUE}
                         ELSE IF undefined THEN BOOLEAN ELSE {FALSE}) :
           IF src.how = "throw" \/ crash
           THEN /\ md_pc' = "failed"
                /\ UNCHANGED <<m_initialised, m_restart, m_T0, m_currentStep,
                               m_eigen_geometry, m_eigen_velocities, m_rmsd_mtd,
                               m_mtd_steps, m_rmsd_ref_file, m_bias_json, m_bias_threads,
                               m_bias_structure_count, m_rattle, m_rattle_tol_12,
                               m_bond_constrained, m_bond_13_constrained, m_wall,
                               md_dT, m_maxtime>>
           ELSE LET b == InitialBias(m)
                IN  /\ md_pc' = "ready"
                    /\ m_initialised' = TRUE
                    /\ m_restart' = m.restart
                    /\ m_T0' = m.T0
                    /\ md_dT' = m.dT
                    /\ m_maxtime' = m.MaxTime
                    /\ m_currentStep' = IF m.restart THEN m.currentStep ELSE 0
                    /\ m_eigen_geometry' = IF m.restart THEN m.geometry ELSE 1
                    /\ m_wall' = InitialiseWalls(mdcfg,
                                                 IF m.restart THEN m.geometry ELSE 1)
                    /\ m_eigen_velocities' = IF m.restart THEN m.velocities ELSE 1
                    /\ m_rmsd_mtd' = m.rmsd_mtd
                    /\ m_mtd_steps' = m.mtd_steps
                    /\ m_rmsd_ref_file' = m.rmsd_ref_file
                    /\ m_bias_json' = m.bias_json
                    /\ m_bias_threads' = b.workers
                    /\ m_bias_structure_count' = b.count
                    /\ m_rattle' = m.rattle
                    /\ m_rattle_tol_12' = m.rattle_tol_12
                    /\ m_bond_constrained' =
                          IF m.restart THEN m.b12
                          ELSE m.b12 \o ConstrainedBonds12(mdcfg, m.rattle)
                    /\ m_bond_13_constrained' =
                          IF m.restart THEN m.b13
                          ELSE m.b13 \o ConstrainedBonds13(mdcfg, m.rattle)
    /\ UNCHANGED <<mdcfg, launch, disk, m_T, m_unstable, m_step, step, aborted, states,
                   calls, midT, rattle_iter, m_current_rescue, exit_by, stop, scanVars, traj>>

\* start, lines 1388-1491: up to the MD loop
StartMD ==
    /\ md_pc = "ready"
    /\ md_pc' = "running"
    /\ m_T' = m_T0
    /\ step' = 0
    /\ aborted' = FALSE
    /\ states' = <<>>
    /\ exit_by' = "none"
    /\ disk' = TriggerWriteRestart(disk, Current)
    /\ UNCHANGED <<mdcfg, launch, m_initialised, m_restart, m_T0, m_unstable, m_step,
                   m_currentStep, m_eigen_geometry, m_eigen_velocities, m_rmsd_mtd,
                   m_mtd_steps, m_rmsd_ref_file, m_bias_json, m_bias_threads,
                   m_bias_structure_count, m_rattle, m_rattle_tol_12, m_bond_constrained,
                   m_bond_13_constrained, calls, midT, rattle_iter, m_wall, md_dT,
                   m_maxtime, m_current_rescue, stop, scanVars, traj>>

\* iterations a constraint loop of Rattle can take
Iterations == IF mdcfg.rattle = 1 THEN 1..mdcfg.rattle_maxiter ELSE {0}

\* start, lines 1562-1583: the rescue counter after the dump of a step whose
\* WriteGeometry returned write
RescueCounter(write, rescue) ==
    IF write THEN 0 ELSE IF rescue THEN m_current_rescue + 1 ELSE m_current_rescue

\* WriteGeometry with a result of false
WriteGeometryFailing(d, v) == [disk |-> TriggerWriteRestart(d, v), result |-> FALSE]

\* WriteGeometry, lines 2900-2926: writes the restart file (2909) and returns
\* the true it starts with (2902, 2925)
WriteGeometry(d, v) == [disk |-> TriggerWriteRestart(d, v), result |-> TRUE]

\* states.size() > (1 - m_current_rescue), line 1565: the int is converted to
\* the unsigned type of size(), a negative one to a value above every size
SizeGreater(size, n) == n >= 0 /\ size > n

\* the restart records start() keeps, the youngest last
Youngest(list) == IF Len(list) > MaxCount THEN Tail(list) ELSE list

\* start, lines 1494-1637: one turn of the MD loop
StepMD ==
    /\ md_pc = "running"
    /\ m_currentStep < m_maxtime
    /\ \E found \in MDStopChoice :
        /\ stop' = found
        /\ IF found
           THEN /\ disk' = TriggerWriteRestart(disk, Current)
                /\ aborted' = TRUE
                /\ md_pc' = "leaving"
                /\ exit_by' = "stop"
                /\ UNCHANGED <<m_T, m_unstable, step, m_currentStep, m_eigen_geometry,
                               m_eigen_velocities, m_bias_threads, m_bias_structure_count,
                               m_rattle_tol_12, states, calls, midT, rattle_iter,
                               m_bond_constrained, m_bond_13_constrained, m_restart,
                               m_T0, m_rmsd_mtd, m_mtd_steps, m_rmsd_ref_file,
                               m_bias_json, m_rattle, md_dT, m_maxtime, m_current_rescue>>
           ELSE \E mid \in mdcfg.temps, T \in mdcfg.temps, bias \in mdcfg.biases,
                   iter1 \in Iterations, iter2 \in Iterations, lost \in BOOLEAN :
                LET r == Integrator([mid |-> mid, T |-> T, bias |-> bias,
                                     iter1 |-> iter1, iter2 |-> iter2])
                    v == [Current EXCEPT !.geometry = r.geometry,
                                         !.velocities = r.velocities,
                                         !.workers = r.bias.workers,
                                         !.count = r.bias.count,
                                         !.b12 = r.b12, !.b13 = r.b13]
                    record == WriteRestartInformation(v)
                    biased == IF r.bias.file # <<>>
                              THEN ("mtd.xyz" :> r.bias.file) @@ disk ELSE disk
                    \* line 1561: the step is one of those that are saved
                    dumps == step % mdcfg.dump = 0
                    w == IF dumps THEN WriteGeometry(biased, v)
                         ELSE [disk |-> biased, result |-> FALSE]
                    \* lines 1565-1583: the rescue
                    rescue == /\ dumps /\ ~w.result /\ mdcfg.rescue
                              /\ SizeGreater(Len(states), 1 - m_current_rescue)
                    at == Len(states) - m_current_rescue
                    integrated == [Members EXCEPT !.geometry = r.geometry,
                                                  !.velocities = r.velocities,
                                                  !.b12 = r.b12, !.b13 = r.b13]
                    \* states[...] outside the vector: a record read from anywhere
                    m == IF rescue /\ at >= 1 /\ ~lost
                         THEN LoadRestartInformationMD(integrated, states[at])
                         ELSE integrated
                    counter == IF dumps THEN RescueCounter(w.result, rescue)
                               ELSE m_current_rescue
                    limit == ~r.unstable /\ counter >= mdcfg.max_rescue
                IN  /\ lost => (rescue /\ at < 1)
                    /\ calls' = IF rescue THEN Append(r.calls, <<"rescue", 0>>) ELSE r.calls
                    /\ midT' = r.mid
                    /\ rattle_iter' = r.iter
                    /\ md_dT' = m.dT
                    /\ m_maxtime' = m.MaxTime
                    /\ m_T0' = m.T0
                    /\ m_eigen_geometry' = m.geometry
                    /\ m_eigen_velocities' = IF rescue THEN 1 ELSE m.velocities
                    /\ m_restart' = IF rescue THEN m.restart ELSE m_restart
                    /\ m_rattle' = m.rattle
                    /\ m_rmsd_mtd' = m.rmsd_mtd
                    /\ m_mtd_steps' = m.mtd_steps
                    /\ m_rmsd_ref_file' = m.rmsd_ref_file
                    /\ m_bias_json' = m.bias_json
                    /\ m_bond_constrained' = m.b12
                    /\ m_bond_13_constrained' = m.b13
                    /\ m_bias_threads' = r.bias.workers
                    /\ m_bias_structure_count' = r.bias.count
                    /\ m_T' = r.T
                    /\ m_unstable' = r.unstable
                    /\ states' = IF w.result THEN Youngest(Append(states, record))
                                 ELSE states
                    /\ m_current_rescue' = counter
                    /\ disk' = IF r.unstable
                               THEN ("unstable_curcuma.json" :>
                                        JsonObject([md |-> record])) @@ w.disk
                               ELSE w.disk
                    /\ aborted' = (r.unstable \/ aborted)
                    /\ md_pc' = IF r.unstable THEN "done"
                                ELSE IF limit THEN "leaving" ELSE md_pc
                    /\ exit_by' = IF r.unstable THEN "unstable"
                                  ELSE IF limit THEN "rescue" ELSE exit_by
                    /\ m_rattle_tol_12' =
                          IF ~r.unstable /\ m_rattle # 0 /\ mdcfg.rattle_dynamic_tol
                          THEN AdjustRattleTolerance(m.rattle_tol_12, r.T)
                          ELSE m.rattle_tol_12
                    /\ step' = IF r.unstable \/ limit THEN step ELSE NextCount(step)
                    /\ m_currentStep' = IF r.unstable \/ limit THEN m.currentStep
                                        ELSE m.currentStep + m.dT
    /\ UNCHANGED <<mdcfg, launch, m_initialised, m_step, m_wall, scanVars, traj>>

\* start, lines 1654-1672: the file of the structures, worker by worker
StructureFile(workers) ==
    Gather([w \in DOMAIN workers |->
                [n \in DOMAIN workers[w] |-> workers[w][n].geometry]], 1, Len(workers))

\* start, lines 1638-1680: after the MD loop
FinishMD ==
    /\ \/ md_pc = "leaving"
       \/ md_pc = "running" /\ m_currentStep >= m_maxtime
    /\ md_pc' = "done"
    /\ exit_by' = IF md_pc = "running" THEN "maxtime" ELSE exit_by
    /\ LET xyz == IF m_rmsd_mtd /\ m_bias_structure_count > 0
                  THEN ("mtd.xyz" :> StructureFile(m_bias_threads)) @@ disk ELSE disk
           final == ("curcuma_final.json" :>
                        JsonObject([md |-> WriteRestartInformation(Current)])) @@ xyz
       IN  disk' = IF aborted THEN final ELSE Remove(final, "curcuma_restart.json")
    /\ UNCHANGED <<mdcfg, launch, m_initialised, m_restart, m_T0, m_T, m_unstable, m_step,
                   step, m_currentStep, aborted, m_eigen_geometry, m_eigen_velocities,
                   m_rmsd_mtd, m_mtd_steps, m_rmsd_ref_file, m_bias_json, m_bias_threads,
                   m_bias_structure_count, m_rattle, m_rattle_tol_12, m_bond_constrained,
                   m_bond_13_constrained, states, calls, midT, rattle_iter, m_wall,
                   md_dT, m_maxtime, m_current_rescue, stop, scanVars, traj>>

\* the program is started again in the directory of the run before, with
\* another number of threads, on the restart file or on the structure file
RelaunchMD ==
    /\ md_pc = "done"
    /\ launch < MaxLaunch
    /\ md_pc' = "start"
    /\ stop' = FALSE
    /\ \E n \in 1..MaxThreads, ref \in {"none", "mtd.xyz"} :
          mdcfg' = [mdcfg EXCEPT !.threads = n, !.initfile = "none", !.restart = TRUE,
                                 !.restartFiles = <<"curcuma_restart.json">>,
                                 !.rmsd_ref_file = ref, !.stoppable = FALSE]
    /\ UNCHANGED <<launch, disk, m_initialised, m_restart, m_T0, m_T, m_unstable, m_step,
                   step, m_currentStep, aborted, m_eigen_geometry, m_eigen_velocities,
                   m_rmsd_mtd, m_mtd_steps, m_rmsd_ref_file, m_bias_json, m_bias_threads,
                   m_bias_structure_count, m_rattle, m_rattle_tol_12, m_bond_constrained,
                   m_bond_13_constrained, states, calls, midT, rattle_iter, m_wall,
                   md_dT, m_maxtime, m_current_rescue, exit_by, scanVars, traj>>

NextMD ==
    \/ ConstructMD
    \/ InitialiseMD
    \/ StartMD
    \/ StepMD
    \/ FinishMD
    \/ RelaunchMD

(***************************************************************************)
(* MD runs                                                                 *)
(***************************************************************************)
\* no scanner has been constructed
NoScan ==
    /\ cfg = <<>>
    /\ mol = <<>>
    /\ label = <<>>
    /\ m_ordered_list = <<>>
    /\ m_previously_accepted = <<>>
    /\ m_rmsd_threshold = 0
    /\ m_rmsd_set = FALSE
    /\ m_looseThresh = 0
    /\ m_skipreuse = FALSE
    /\ m_skip = 0
    /\ m_result = <<>>
    /\ m_stored_structures = <<>>
    /\ m_rejected_structures = <<>>
    /\ m_threshold = <<>>
    /\ m_all_structures = <<>>
    /\ m_reorder_rules = <<>>
    /\ m_exclude_list = {}
    /\ m_listThresh = {}
    /\ m_dL = [E |-> 0, I |-> 0, H |-> 0]
    /\ m_dT = [E |-> 0, I |-> 0, H |-> 0]
    /\ m_accepted = 0
    /\ m_rejected = 0
    /\ m_lowest_energy = 0
    /\ pc = "none"
    /\ phase = 0
    /\ pass = "none"
    /\ cached = <<>>
    /\ idx = 0
    /\ loc = [dLE |-> 0, dLI |-> 0, dLH |-> 0, rules |-> <<>>, reuse_only |-> FALSE]
    /\ threads = <<>>
    /\ passLog = <<>>
    /\ lastDecision = [cand |-> 0, kind |-> "none", rejected |-> FALSE, via |-> "none",
                       workers |-> <<>>]
    /\ molalignRuns = <<>>
    /\ accepted_file = <<>>

\* a chain 0-1-2-3, a ring of three atoms, a ring of four atoms
Chain == {<<1, 0>>, <<2, 1>>, <<3, 2>>}

Ring3 == {<<1, 0>>, <<2, 1>>, <<2, 0>>}

Ring4 == {<<1, 0>>, <<2, 0>>, <<3, 1>>, <<3, 2>>}

\* the keywords of a plain MD run with the Verlet integrator
BaseMD ==
    [T |-> 1, dT |-> 1, MaxTime |-> MaxSteps, threads |-> 1, thermostat |-> "none",
     rescue |-> FALSE, max_rescue |-> 2, dump |-> 1,
     rmsd_mtd |-> FALSE, mtd_steps |-> 2, rmsd_econv |-> 1, rmsd_fix_structure |-> FALSE,
     rmsd_ref_file |-> "none", rattle |-> 0, rattle_12 |-> TRUE, rattle_13 |-> TRUE,
     rattle_maxiter |-> 2, rattle_dynamic_tol |-> FALSE, rattle_tol_12 |-> 1,
     initfile |-> "none", restart |-> FALSE, restartFiles |-> <<>>,
     bonds |-> Chain, elements |-> <<6, 6, 6, 1>>, stoppable |-> FALSE,
     temps |-> {1}, biases |-> {0},
     wall |-> [a \in Axes |-> <<0, 0>>], origin |-> [a \in Axes |-> 0],
     spacing |-> ("x" :> 10) @@ ("y" :> 5) @@ ("z" :> 0)]

\* an MD run on one of the controllers, in a directory with one of the contents
InitMDWith(Controllers, Disks) ==
    /\ NoScan
    /\ stop = FALSE
    /\ mdcfg \in Controllers
    /\ disk \in Disks
    /\ md_pc = "start"
    /\ NotConstructed
    /\ NoTraj

\* temperatures of a run that can blow up
WildTemps == {1, 20000, NaN}

\* Verlet and RATTLE runs at two reference temperatures, with and without a
\* thermostat, with the metadynamics and with a stop file
MDControllers ==
    {[BaseMD EXCEPT !.T = t, !.thermostat = th, !.temps = WildTemps] :
        t \in {1, 3}, th \in {"none", "berendson"}}
    \cup {[BaseMD EXCEPT !.rattle = 1, !.rattle_dynamic_tol = d, !.temps = {1, 3}] :
            d \in BOOLEAN}
    \cup {[BaseMD EXCEPT !.rmsd_mtd = TRUE, !.threads = n, !.biases = {0, 3}] :
            n \in 1..MaxThreads}
    \cup {[BaseMD EXCEPT !.stoppable = TRUE],
          [BaseMD EXCEPT !.stoppable = TRUE, !.rattle = 1, !.rmsd_mtd = TRUE]}

\* the directory of a first run
EmptyDisk == <<>>

InitMD == InitMDWith(MDControllers, {EmptyDisk})

SpecMD == InitMD /\ [][NextMD]_vars

(***************************************************************************)
(* C13, C14, C16, C17: one MD step                                         *)
(***************************************************************************)
\* an integrator has run in this object
Stepped == md_pc \in {"running", "leaving", "done"} /\ calls # <<>>

\* the temperature at the end of the last step, lines 1758 and 2292: the one
\* the last thermostat call of the step works on
EndT == calls[Len(calls)][2]

\* C13: after a step the instability flag is set, and the run aborted, exactly
\* when the temperature at the end of the step is above 10000 times the
\* configured T0 or is NaN.
UnstableAgainstT0 ==
    Stepped =>
        /\ m_unstable <=> (Greater(EndT, Times(UnstableFactor, m_T0)) \/ IsNan(EndT))
        /\ m_unstable => aborted /\ md_pc = "done"

\* a constraint loop of the last RATTLE step ran rattle_maxiter times
RattleAtMaxiter ==
    /\ Stepped
    /\ mdcfg.rattle = 1
    /\ \/ rattle_iter[1] >= mdcfg.rattle_maxiter
       \/ rattle_iter[2] >= mdcfg.rattle_maxiter

\* C14: when a constraint loop of RATTLE has reached rattle_maxiter the run
\* is aborted, a restart record of it is on disk, and no further step follows.
RattleFailureAborts ==
    RattleAtMaxiter =>
        /\ aborted
        /\ md_pc = "done"
        /\ "unstable_curcuma.json" \in DOMAIN disk

\* where the calls of the last step have the operation
Positions(name) == {n \in DOMAIN calls : calls[n][1] = name}

\* every call of the first operation comes before every call of the second
Before(first, second) ==
    \A a \in Positions(first), b \in Positions(second) : a < b

\* C16: a Verlet step updates the positions, then the velocities by the first
\* half step, then computes energy and gradient with the wall, then updates
\* the velocities by the second half step, then applies the thermostat; the
\* thermostat is applied once, after the second half step.
VerletOrderAsStated ==
    (Stepped /\ mdcfg.rattle # 1) =>
        /\ Before("position", "velocity1")
        /\ Before("velocity1", "energy")
        /\ Before("energy", "wall")
        /\ Before("wall", "velocity2")
        /\ Before("velocity2", "thermostat")
        /\ Cardinality(Positions("thermostat")) = 1

\* C17: the integrator runs ApplyRMSDMTD only in a turn of the MD loop whose
\* step index is a multiple of mtd_steps.
MtdAtLoopMultiples ==
    [][(md_pc = "running" /\ m_eigen_geometry' # m_eigen_geometry
            /\ Positions("mtd")' # {})
        => step % m_mtd_steps = 0]_vars

(***************************************************************************)
(* C15: restart records that are no JSON or lack fields                    *)
(***************************************************************************)
\* a complete record of a run at T0 = 3, and records that lack fields
FullRecord ==
    [dT |-> 1, MaxTime |-> MaxSteps, T |-> 3, currentStep |-> 1, velocities |-> Geometry2String(2),
     geometry |-> Geometry2String(2), rattle |-> 0, rmsd_mtd |-> FALSE]

NoVelocities ==
    [dT |-> 1, MaxTime |-> MaxSteps, T |-> 3, currentStep |-> 1,
     geometry |-> Geometry2String(2)]

HalfConstraints ==
    [rattle |-> 1,
     constrains |-> [constrain_12 |-> TRUE, num_constrain_12 |-> 2,
                     constrains_12 |-> <<[i |-> 1, j |-> 0, d |-> 9]>>]]

Records == {JsonObject(FullRecord), JsonObject(NoVelocities), JsonObject(HalfConstraints),
            JsonNull, Garbage}

\* runs that read init.json as initfile, and runs that find a restart file
LoadControllers ==
    {[BaseMD EXCEPT !.initfile = "init.json", !.rattle = r] : r \in {0, 1}}
    \cup {[BaseMD EXCEPT !.restart = TRUE, !.restartFiles = <<"curcuma_restart.json">>,
                         !.rattle = r] : r \in {0, 1}}

LoadDisks ==
    {("init.json" :> record)
        @@ ("curcuma_restart.json" :> JsonObject([md |-> record])) : record \in Records}
    \cup {("init.json" :> record) @@ ("curcuma_restart.json" :> Garbage) :
            record \in Records}

InitLoad == InitMDWith(LoadControllers, LoadDisks)

SpecLoad == InitLoad /\ [][NextMD]_vars

\* the record Initialise is given: the initfile, or the block md of the
\* restart file
Supplied ==
    IF mdcfg.initfile # "none" THEN FileContent(mdcfg.initfile)
    ELSE LET f == FileContent(mdcfg.restartFiles[1])
         IN  IF Has(f, "md") THEN f.obj.md ELSE f

\* the record is no JSON, or an object without one of the fields of a record
Corrupt(record) ==
    \/ record.kind = "garbage"
    \/ record.kind = "object" /\ DOMAIN FullRecord \ DOMAIN record.obj # {}

\* Initialise has come to its end, one way or the other
Initialised == launch = 1 /\ md_pc \in {"ready", "failed"}

\* the members are those of a run without a restart record
FromDefaults ==
    /\ ~m_restart
    /\ m_T0 = mdcfg.T
    /\ m_currentStep = 0
    /\ m_rattle = mdcfg.rattle
    /\ m_bond_constrained = ConstrainedBonds12(mdcfg, mdcfg.rattle)
    /\ m_bond_13_constrained = ConstrainedBonds13(mdcfg, mdcfg.rattle)

\* C15: a record that is no JSON or lacks fields is skipped: Initialise
\* raises no error, applies no value of the record and goes on from the
\* defaults.
CorruptRecordSkipped ==
    (Initialised /\ Corrupt(Supplied)) => (md_pc = "ready" /\ FromDefaults)

(***************************************************************************)
(* C18: the structures of the bias workers                                 *)
(***************************************************************************)
\* metadynamics runs with one or two workers, from nothing or from a file of
\* three reference structures, which a stop file can end
MtdControllers ==
    {[BaseMD EXCEPT !.rmsd_mtd = TRUE, !.threads = n, !.biases = {0, 3},
                    !.rmsd_ref_file = f, !.stoppable = st] :
        n \in 1..MaxThreads, f \in {"none", "ref.xyz"}, st \in BOOLEAN}

MtdDisks == {("ref.xyz" :> <<7, 8, 9>>)}

InitMtd == InitMDWith(MtdControllers, MtdDisks)

SpecMtd == InitMtd /\ [][NextMD]_vars

\* the structures the workers hold: <<worker, place, index>>
Deposited ==
    UNION {{<<w, n, m_bias_threads[w][n].index>> : n \in DOMAIN m_bias_threads[w]} :
                w \in DOMAIN m_bias_threads}

\* C18: every structure of the bias workers has an index of its own below
\* the counter m_bias_structure_count, and the structure with index k is
\* held by worker k mod the number of workers, and by no other.
RoundRobinOwnership ==
    \A a \in Deposited :
        /\ a[3] >= 0 /\ a[3] < m_bias_structure_count
        /\ a[1] = (a[3] % Len(m_bias_threads)) + 1
        /\ \A b \in Deposited : b[3] = a[3] => b = a

\* a run started again on the restart file, with two workers that both hold
\* structures of the run before and one of this run
RoundRobinWitness ==
    /\ launch = 2
    /\ m_restart
    /\ Len(m_bias_threads) = 2
    /\ m_bias_threads[2] # <<>>
    /\ \E a \in Deposited : m_bias_threads[a[1]][a[2]].time > 0
    /\ m_bias_structure_count >= 3

(***************************************************************************)
(* C19: the constraint records during a run                                *)
(***************************************************************************)
\* atom pair and squared reference distance of every 1-2 and 1-3 constraint
ConstraintRecords == <<m_bond_constrained, m_bond_13_constrained>>

\* start, line 1567: the members after LoadRestartInformation(states[...]) of
\* the rescue branch, with m_current_rescue = 0.  The branch needs
\* WriteGeometry() to return false, and WriteGeometry returns the true it
\* starts with (lines 2902, 2925), so that no step takes it
RescueReload == LoadRestartInformationMD(Members, states[Len(states)])

\* C19: once Initialise has completed, no step of start() -- integrator,
\* thermostat, tolerance adjustment, restart dump -- changes the atom pair or
\* the squared reference distance of a 1-2 or 1-3 constraint record, and a
\* reload of the last dumped state gives the records the run holds.
ConstraintsFrozen ==
    [][(md_pc \in {"ready", "running", "leaving"}) =>
            /\ ConstraintRecords' = ConstraintRecords
            /\ (states' # <<>> =>
                    <<RescueReload.b12, RescueReload.b13>>' = ConstraintRecords')]_vars

\* a RATTLE run with both lists filled, after two steps, one of which has
\* used up rattle_maxiter, and with the tolerance adjusted
ConstraintsFrozenWitness ==
    /\ md_pc = "running"
    /\ step = 2
    /\ m_bond_constrained # <<>>
    /\ m_bond_13_constrained # <<>>
    /\ rattle_iter[1] = mdcfg.rattle_maxiter
    /\ m_rattle_tol_12 # mdcfg.rattle_tol_12

(***************************************************************************)
(* C20: the lists InitConstrainedBonds builds                              *)
(***************************************************************************)
\* RATTLE runs on a chain, on a ring of three and on a ring of four atoms
BondControllers ==
    {[BaseMD EXCEPT !.rattle = r, !.bonds = b, !.rattle_dynamic_tol = d] :
        r \in 1..2, b \in {Chain, Ring3, Ring4}, d \in BOOLEAN}

InitBonds == InitMDWith(BondControllers, {EmptyDisk})

SpecBonds == InitBonds /\ [][NextMD]_vars

\* the atom pairs of a constraint list
Pairs(list) == {<<list[n][1], list[n][2]>> : n \in DOMAIN list}

\* Initialise has built the lists from the molecule, lines 647-649
ListsBuilt == m_initialised /\ ~m_restart /\ m_rattle # 0

\* C20: the lists InitConstrainedBonds builds are disjoint for every bond
\* topology: no atom pair is in both lists and none is twice in the 1-3 list.
ConstraintListsDisjoint ==
    ListsBuilt =>
        /\ Pairs(m_bond_constrained) \cap Pairs(m_bond_13_constrained) = {}
        /\ Cardinality(Pairs(m_bond_13_constrained)) = Len(m_bond_13_constrained)

(***************************************************************************)
(* C21: the walls Initialise sets                                          *)
(***************************************************************************)
\* bounds of the x axis: none, one of the two, both, the wrong way round
WallBounds == {<<0, 0>>, <<0, 10>>, <<-10, 0>>, <<-20, 60>>, <<10, -10>>, <<7, 7>>}

\* runs with walls given for the x axis and for the y axis
WallControllers ==
    {[BaseMD EXCEPT !.wall = ("x" :> bx) @@ ("y" :> by) @@ ("z" :> <<0, 0>>)] :
        bx \in WallBounds, by \in {<<0, 0>>, <<-20, 60>>}}

InitWalls == InitMDWith(WallControllers, {EmptyDisk})

SpecWalls == InitWalls /\ [][NextMD]_vars

\* one of the two bounds is zero, or the bounds are the wrong way round
AnyBoundMissing(bounds) == bounds[1] = 0 \/ bounds[2] = 0 \/ bounds[2] <= bounds[1]

\* C21: after Initialise, an axis with a bound that is zero or with invalid
\* bounds has the bounds of the geometry widened by max(20% of the extent,
\* 5 Angstrom); an axis with two valid bounds keeps them.
WallsAutoSized ==
    md_pc = "ready" =>
        \A a \in Axes :
            m_wall[a] = IF AnyBoundMissing(mdcfg.wall[a])
                        THEN AutoBounds(mdcfg, m_eigen_geometry, a)
                        ELSE mdcfg.wall[a]

(***************************************************************************)
(* C22: writing and loading a restart record                               *)
(***************************************************************************)
\* the members of an object LoadControlJson has just filled, lines 168-329
Constructed ==
    [dT |-> mdcfg.dT, MaxTime |-> mdcfg.MaxTime, T0 |-> mdcfg.T, currentStep |-> 0, geometry |-> 0, velocities |-> 0,
     rattle |-> IF mdcfg.rattle = 1 THEN 1 ELSE 0,
     rattle_tol_12 |-> mdcfg.rattle_tol_12, rmsd_mtd |-> mdcfg.rmsd_mtd,
     mtd_steps |-> mdcfg.mtd_steps, rmsd_ref_file |-> mdcfg.rmsd_ref_file,
     bias_json |-> <<>>, b12 |-> <<>>, b13 |-> <<>>, restart |-> FALSE]

\* LoadRestartInformation(WriteRestartInformation()) in a new object
Reloaded == LoadRestartInformationMD(Constructed, WriteRestartInformation(Current))

\* C22: the record WriteRestartInformation produces, loaded into a new
\* object, gives back positions, velocities, step counter, constraint
\* tables, RATTLE tolerance and bias records of the run that wrote it.
RestartRoundTrip ==
    (md_pc = "running" /\ step > 0) =>
        /\ Reloaded.restart
        /\ Reloaded.geometry = m_eigen_geometry
        /\ Reloaded.velocities = m_eigen_velocities
        /\ Reloaded.currentStep = m_currentStep
        /\ Reloaded.T0 = m_T0
        /\ Reloaded.b12 = m_bond_constrained
        /\ Reloaded.b13 = m_bond_13_constrained
        /\ Reloaded.rattle_tol_12 = m_rattle_tol_12
        /\ m_rmsd_mtd =>
              Reloaded.bias_json = BiasVector(m_bias_threads, m_bias_structure_count)

(***************************************************************************)
(* C23: the end of the MD loop                                             *)
(***************************************************************************)
\* calm runs with the time steps LoadControlJson takes from the controller
\* (line 176 reads dT as it is), with and without a stop file
TimeControllers ==
    {[BaseMD EXCEPT !.dT = dt, !.stoppable = st] : dt \in {0, 1}, st \in BOOLEAN}

InitTime == InitMDWith(TimeControllers, {EmptyDisk})

\* the process runs on as long as it has a next statement
SpecTime == InitTime /\ [][NextMD]_vars /\ WF_vars(NextMD)

\* C23: the MD loop of every run comes to its end, and it does so by the
\* maximum time or by the stop file.
MDLoopTerminates ==
    (md_pc = "running") ~> (md_pc = "done" /\ exit_by \in {"maxtime", "stop"})

(***************************************************************************)
(* C24: the early breaks of the reorder workers                            *)
(***************************************************************************)
\* scans with every value of earlybreak, with and without a filled rule cache
BreakControllers ==
    {[BaseController EXCEPT !.earlybreak = e, !.MaxHTopoDiff = h, !.rmsd = 2,
                            !.restartFiles = f] :
        e \in 0..3, h \in {-1, 0}, f \in {<<>>, <<RestartFile(<<Swap>>)>>}}

InitBreak == InitWith(BreakControllers, TopoMols, Perms)

SpecBreak == InitBreak /\ [][Next]_vars

\* the reorder workers that have rejected their candidate
Rejecting == {i \in DOMAIN threads : /\ threads[i].kind = "reorder"
                                     /\ threads[i].state = "done"
                                     /\ ~threads[i].keep}

\* C24: a worker that rejects through a cached rule asks for the break of
\* the pool exactly when bit 0 of earlybreak is clear, one that rejects
\* through a reorder search exactly when bit 1 is clear, and one that rejects
\* by the plain best fit always.
EarlyBreakInverted ==
    \A i \in Rejecting :
        threads[i].brk = IF threads[i].reused_worked THEN cfg.earlybreak \in {0, 2}
                         ELSE IF threads[i].reorder_worked THEN cfg.earlybreak \in {0, 1}
                         ELSE TRUE

\* with earlybreak = 1 a worker has rejected through a cached rule without
\* asking for the break
EarlyBreakWitness ==
    /\ cfg.earlybreak = 1
    /\ \E i \in Rejecting : threads[i].reused_worked /\ ~threads[i].brk

(***************************************************************************)
(* C25: the angles InitConstrainedBonds constrains                         *)
(***************************************************************************)
\* water with the oxygen as atom 0, as atom 1 and as atom 2; atom 3 is apart
WaterFirst == {<<1, 0>>, <<2, 0>>}

WaterMiddle == {<<1, 0>>, <<2, 1>>}

WaterLast == {<<2, 0>>, <<2, 1>>}

AngleControllers ==
    {[BaseMD EXCEPT !.rattle = 1, !.bonds = b, !.elements = e, !.stoppable = st] :
        b \in {WaterFirst}, e \in {<<8, 1, 1, 18>>}, st \in BOOLEAN}
    \cup {[BaseMD EXCEPT !.rattle = 1, !.bonds = b, !.stoppable = st] :
            b \in {Chain, WaterMiddle, WaterLast}, st \in BOOLEAN}

InitAngles == InitMDWith(AngleControllers, {EmptyDisk})

SpecAngles == InitAngles /\ [][NextMD]_vars

\* two atoms bonded to a common third one
SharePartner(i, k) ==
    /\ i # k
    /\ \E j \in Atoms \ {i, k} : Bonded(mdcfg.bonds, i, j) /\ Bonded(mdcfg.bonds, k, j)

\* C25: with rattle_13 the 1-3 list holds every pair of atoms that are bonded
\* to a common third atom, whatever the order of the indices.
AnglesConstrained ==
    (ListsBuilt /\ mdcfg.rattle_13) =>
        \A i, k \in Atoms :
            SharePartner(i, k) =>
                \/ <<i, k>> \in Pairs(m_bond_13_constrained)
                \/ <<k, i>> \in Pairs(m_bond_13_constrained)

(***************************************************************************)
(* C26: a stop file found in the middle of a reorder or reuse pass         *)
(***************************************************************************)
\* pass k of the log was left at the stop file, after a pass that ran through
StoppedAfter(k) ==
    /\ k \in 2..Len(passLog)
    /\ ~passLog[k].complete
    /\ passLog[k - 1].complete

\* C26: when the scan has ended after a stop file in the middle of a pass,
\* every structure the pass before had accepted, and no comparison has
\* rejected, is in the accepted file.
StopKeepsAccepted ==
    (pc = "done" /\ cfg.rank = -1 /\ cfg.maxenergy = -1) =>
        \A k \in DOMAIN passLog :
            StoppedAfter(k) =>
                \A m \in ToSet(passLog[k - 1].accepted) :
                    \/ m \in ToSet(accepted_file)
                    \/ m \in ToSet(m_rejected_structures)

(***************************************************************************)
(* C27: a file of previously accepted structures                           *)
(***************************************************************************)
NPrevious == 1

PreviousControllers ==
    {[BaseController EXCEPT !.rmsd = 2, !.skipinit = si, !.reset = x] :
        si \in BOOLEAN, x \in BOOLEAN}

InitPrevious == InitFrom(PreviousControllers, PlainMols, Perms, NPrevious)

SpecPrevious == InitPrevious /\ [][Next]_vars

\* the candidate fits a previously accepted structure as it stands
MatchesPrevious(m) ==
    \E q \in ToSet(m_previously_accepted) :
        BestFitRMSD(q, label[q], m, label[m]) < m_rmsd_threshold

\* C27: a candidate that matches a previously accepted structure is rejected,
\* it is not among the accepted structures when the scan has ended.
PreviousCompared ==
    pc = "done" => \A m \in ToSet(m_stored_structures) : ~MatchesPrevious(m)

(***************************************************************************)
(* C28: the structures one call of ApplyRMSDMTD deposits                   *)
(***************************************************************************)
\* C28: a step of the MD loop, which calls ApplyRMSDMTD once at most, raises
\* the counter of the deposited structures by one at most, from 0 as well.
OneDepositPerCall ==
    [][md_pc = "running" => m_bias_structure_count' <= m_bias_structure_count + 1]_vars

(***************************************************************************)
(* C29: the rescue of start()                                              *)
(***************************************************************************)
RescueControllers ==
    {[BaseMD EXCEPT !.rescue = r, !.max_rescue = n, !.dump = d, !.stoppable = st,
                    !.temps = {1, NaN}] :
        r \in BOOLEAN, n \in {0, 2}, d \in 1..2, st \in BOOLEAN}

InitRescue == InitMDWith(RescueControllers, {EmptyDisk})

SpecRescue == InitRescue /\ [][NextMD]_vars

\* the step is a turn of the MD loop that has gone past the stop file
LoopTurn == md_pc = "running" /\ m_currentStep < m_maxtime /\ ~stop'

MaxLines == 7

MaxField == 2

\* std::stoi: the integer a line starts with
stoi(line) == line[1]

\* Molecule(atoms, 0): atoms atoms at the origin
Molecule(atoms) == [k \in 1..atoms |-> 0]

\* Molecule::setXYZ(line, k): atom k, counted from 0, gets the coordinates of the line
setXYZ(m, line, k) == [m EXCEPT ![k + 1] = line[1]]

\* the RMSD of the driver after AutoPilot: the misfit of the coordinates, and
\* the largest misfit for every atom without a partner
RECURSIVE Misfit(_, _, _)
Misfit(ref, tgt, k) ==
    IF k > Max(Len(ref), Len(tgt)) THEN 0
    ELSE (IF k <= Len(ref) /\ k <= Len(tgt) THEN Abs(ref[k] - tgt[k]) ELSE MaxField + 1)
            + Misfit(ref, tgt, k + 1)

TrajRMSD(ref, tgt) == Misfit(ref, tgt, 1)

\* line 79 with the frame closed one line early
FrameCompleteEarly(i, atoms) == i = atoms

\* line 79: the line is the last one of the frame
FrameComplete(i, atoms) == i - 1 = atoms

\* lines 45-69: up to the loop over the lines
OpenTrajectory ==
    /\ traj.pc = "new"
    /\ traj' = [traj EXCEPT !.pc = "reading",
                            !.m_stored_structures =
                                IF traj.m_reference # <<>> THEN <<traj.m_reference>> ELSE <<>>,
                            !.atoms = 0, !.index = 0, !.i = 0, !.mol = Molecule(0)]
    /\ UNCHANGED <<scanVars, stop, mdVars>>

\* lines 70-104: one line of an xyz file
ReadLine ==
    /\ traj.pc = "reading"
    /\ traj.index < Len(traj.m_filename)
    /\ LET line == traj.m_filename[traj.index + 1]
           atoms == IF traj.index = 0 THEN stoi(line) ELSE traj.atoms
           fresh == IF traj.index = 0 THEN Molecule(atoms) ELSE traj.mol
           mol1 == IF traj.i > 1 THEN setXYZ(fresh, line, traj.i - 2) ELSE fresh
           stored == IF traj.m_stored_structures = <<>> THEN <<mol1>>
                     ELSE traj.m_stored_structures
       IN  traj' = IF FrameComplete(traj.i, atoms)
                   THEN [traj EXCEPT !.atoms = atoms,
                                     !.m_stored_structures = stored,
                                     !.m_rmsd_file = Append(@, TrajRMSD(stored[1], mol1)),
                                     !.i = 0,
                                     !.mol = Molecule(atoms),
                                     !.index = @ + 1]
                   ELSE [traj EXCEPT !.atoms = atoms, !.mol = mol1, !.i = @ + 1,
                                     !.index = @ + 1]
    /\ UNCHANGED <<scanVars, stop, mdVars>>

\* line 70: getline fails at the end of the file
CloseTrajectory ==
    /\ traj.pc = "reading"
    /\ traj.index = Len(traj.m_filename)
    /\ traj' = [traj EXCEPT !.pc = "done"]
    /\ UNCHANGED <<scanVars, stop, mdVars>>

NextTraj ==
    \/ OpenTrajectory
    \/ ReadLine
    \/ CloseTrajectory

\* all lists over S with lo to hi entries
ListsBetween(S, lo, hi) == {l \in ListsUpTo(S, hi) : Len(l) >= lo}

\* xyz files with a first line
TrajFiles == ListsBetween({<<x>> : x \in 0..MaxField}, 1, MaxLines)

\* no reference file, or one with a structure of one or two atoms
TrajReferences == {<<>>} \cup {<<1>>, <<2, 0>>}

InitTraj ==
    /\ NoScan
    /\ stop = FALSE
    /\ NoMD
    /\ traj \in {[pc |-> "new", m_filename |-> f, m_reference |-> r,
                  m_stored_structures |-> <<>>, m_rmsd_file |-> <<>>,
                  atoms |-> 0, index |-> 0, i |-> 0, mol |-> <<>>] :
                    f \in TrajFiles, r \in TrajReferences}

SpecTraj == InitTraj /\ [][NextTraj]_vars

(***************************************************************************)
(* C30: the frames of a trajectory                                         *)
(***************************************************************************)
\* the atom count of the first line
FirstCount == traj.m_filename[1][1]

\* the structure in the lines of frame f, counted from 1, frames being
\* FirstCount + 2 lines long
FrameOf(f) ==
    [k \in 1..FirstCount |-> traj.m_filename[(f - 1) * (FirstCount + 2) + 2 + k][1]]

\* the given reference or, without one, the first frame
ReferenceOf == IF traj.m_reference # <<>> THEN traj.m_reference ELSE FrameOf(1)

\* C30: the analysis of an xyz trajectory writes one RMSD for every complete
\* frame of n + 2 lines, n being the atom count of the first line of the
\* file, each against the given reference or else against the first frame.
FramesAnalysed ==
    traj.pc = "done" =>
        /\ Len(traj.m_rmsd_file) = Len(traj.m_filename) \div (FirstCount + 2)
        /\ \A f \in DOMAIN traj.m_rmsd_file :
              traj.m_rmsd_file[f] = TrajRMSD(ReferenceOf, FrameOf(f))

\* a file of two frames and a line more whose second frame starts with
\* another atom count, analysed without a reference
FramesWitness ==
    /\ traj.pc = "done"
    /\ traj.m_reference = <<>>
    /\ Len(traj.m_rmsd_file) = 2
    /\ Len(traj.m_filename) = 2 * (FirstCount + 2) + 1
    /\ FirstCount > 0
    /\ traj.m_filename[FirstCount + 3][1] # FirstCount
    /\ traj.m_rmsd_file[2] > 0

====
